---- MODULE Spec2Model ----
(***************************************************************************)
(* A model of Lib/traceback.py: stack extraction and formatting            *)
(* (StackSummary), construction of TracebackException trees and their      *)
(* rendering (TracebackException.format / format_exception_only), the      *)
(* entry points print_exception and format_exception, the rendering of a   *)
(* SyntaxError, the byte to character offset conversion, and the name      *)
(* suggestions with their edit distance.                                   *)
(*                                                                         *)
(* Python's None is the empty tuple and a present value x is <<x>>, so     *)
(* that "x is None" and "x != y" keep the meaning they have in the source. *)
(* Rendered text is a sequence of records, one per string the code yields, *)
(* each holding the pieces the code puts into that string.                 *)
(***************************************************************************)
EXTENDS Integers, Sequences, FiniteSets, TLC

VARIABLES
    pc,                \* position of the call being modelled
    op,                \* the entry point that ran
    extracted_list,    \* argument of format_list
    tb,                \* the frame chain, oldest frame first
    limit,             \* the limit argument
    tracebacklimit,    \* sys.tracebacklimit, None when unset
    result,            \* what the entry point returned or yielded
    raised,            \* the exception the entry point raised, NoError if none
    excs,              \* the failures: exception id -> its attributes
    compact,           \* constructor argument compact
    max_group_width,   \* constructor argument max_group_width
    max_group_depth,   \* constructor argument max_group_depth
    nodes,             \* the TracebackException objects, in construction order
    queue,             \* the work list of TracebackException.__init__
    seen,              \* _seen: ids of the failures already visited
    chain,             \* argument chain of format
    show_group,        \* argument show_group of format_exception_only
    ctx,               \* the _ExceptionPrintContext when format has finished
    call,              \* the arguments of the module-level function that is called
    local,             \* the local variables of each call in progress
    heap               \* objects outside the call: the FrameSummary read, linecache's calls

stackVars == <<extracted_list, tb, limit, tracebacklimit>>
argVars == <<excs, compact, max_group_width, max_group_depth>>
treeVars == <<nodes, queue, seen>>
fmtVars == <<chain, show_group, ctx>>
excVars == <<argVars, treeVars, fmtVars>>

vars == <<pc, op, stackVars, result, raised, excVars, call, local, heap>>

NoError == "none"

None == <<>>
Some(x) == <<x>>
Val(o) == o[1]

\* F at the value of x, with x computed once
Bind(x, F(_)) == CHOOSE r \in { F(v) : v \in {x} } : TRUE

Abs(n) == IF n < 0 THEN -n ELSE n
Min(a, b) == IF a < b THEN a ELSE b

Reverse(s) == [i \in 1..Len(s) |-> s[Len(s) + 1 - i]]

RECURSIVE Flatten(_)
Flatten(ss) == IF ss = <<>> THEN <<>> ELSE Head(ss) \o Flatten(Tail(ss))

----------------------------------------------------------------------------
(* Bounds of the model.                                                    *)

MaxStackLen == 5     \* longest list handed to format_list
MaxChain == 4        \* longest frame chain handed to the extractors
MaxLimit == 3        \* largest |limit|

----------------------------------------------------------------------------
(* FrameSummary and StackSummary.format                                    *)

RECURSIVE_CUTOFF == 3

FrameSummary(filename, lineno, name, line) ==
    [filename |-> filename, lineno |-> lineno, name |-> name, line |-> line]

\* StackSummary.from_list on old-style tuples (filename, lineno, name, line)
from_list(a_list) ==
    [i \in 1..Len(a_list) |->
        FrameSummary(a_list[i][1], a_list[i][2], a_list[i][3], a_list[i][4])]

\* The string of one frame: the location header and, when the frame has a
\* source line, the indented source line.
format_frame_summary(frame_summary) ==
    [t |-> "frame",
     file |-> frame_summary.filename,
     lineno |-> frame_summary.lineno,
     name |-> frame_summary.name,
     text |-> frame_summary.line]

\* '  [Previous line repeated {count} more time{"s" if count > 1 else ""}]'
RepeatedLine(count) ==
    [t |-> "repeated", count |-> count,
     word |-> IF count > 1 THEN "times" ELSE "time"]

\* One iteration of the loop of StackSummary.format, on the loop state
\* st = [result, last_file, last_line, last_name, count].
FormatLoopBody(st, frame_summary) ==
    LET formatted_frame == format_frame_summary(frame_summary)
        newrun == \/ st.last_file = None
                  \/ st.last_file # Some(frame_summary.filename)
                  \/ st.last_line = None
                  \/ st.last_line # frame_summary.lineno
                  \/ st.last_name = None
                  \/ st.last_name # Some(frame_summary.name)
        flushed == IF newrun /\ st.count > RECURSIVE_CUTOFF
                   THEN Append(st.result, RepeatedLine(st.count - RECURSIVE_CUTOFF))
                   ELSE st.result
        count1 == (IF newrun THEN 0 ELSE st.count) + 1
    IN  [result |-> IF count1 > RECURSIVE_CUTOFF THEN flushed
                    ELSE Append(flushed, formatted_frame),
         last_file |-> IF newrun THEN Some(frame_summary.filename) ELSE st.last_file,
         last_line |-> IF newrun THEN frame_summary.lineno ELSE st.last_line,
         last_name |-> IF newrun THEN Some(frame_summary.name) ELSE st.last_name,
         count |-> count1]

RECURSIVE FormatLoop(_, _, _)
FormatLoop(self, i, st) ==
    IF i > Len(self) THEN st
    ELSE FormatLoop(self, i + 1, FormatLoopBody(st, self[i]))

\* StackSummary.format
StackSummaryFormat(self) ==
    LET st == FormatLoop(self, 1,
                  [result |-> <<>>, last_file |-> None, last_line |-> None,
                   last_name |-> None, count |-> 0])
    IN  IF st.count > RECURSIVE_CUTOFF
        THEN Append(st.result, RepeatedLine(st.count - RECURSIVE_CUTOFF))
        ELSE st.result

format_list(a_list) == StackSummaryFormat(from_list(a_list))

----------------------------------------------------------------------------
(* Extraction: walk_tb, walk_stack, the limit policy, extract_tb,          *)
(* extract_stack.  A frame of the chain is its line number; the chain tb   *)
(* lists the frames oldest first.                                          *)

\* walk_tb follows tb_next: from the outermost frame to the frame that raised
walk_tb(frames) == frames

\* walk_stack follows f_back: from the newest frame to the oldest
walk_stack(frames) == Reverse(frames)

\* itertools.islice(frame_gen, n)
islice(frame_gen, n) == SubSeq(frame_gen, 1, Min(n, Len(frame_gen)))

\* deque with the window taken at the wrong end
deque_keeps_head(frame_gen, n) == SubSeq(frame_gen, 1, Min(n, Len(frame_gen)))

\* collections.deque(frame_gen, maxlen=n)
deque(frame_gen, n) ==
    SubSeq(frame_gen, Len(frame_gen) - Min(n, Len(frame_gen)) + 1, Len(frame_gen))

\* the limit in force: the argument, or sys.tracebacklimit clipped at 0
EffectiveLimit(lim, syslimit) ==
    IF lim # None THEN lim
    ELSE IF syslimit # None /\ Val(syslimit) < 0 THEN Some(0)
    ELSE syslimit

ApplyLimit(frame_gen, lim) ==
    IF lim = None THEN frame_gen
    ELSE IF Val(lim) >= 0 THEN islice(frame_gen, Val(lim))
    ELSE deque(frame_gen, -Val(lim))

\* StackSummary._extract_from_extended_frame_gen
extract_from_extended_frame_gen(frame_gen, lim, syslimit) ==
    LET kept == ApplyLimit(frame_gen, EffectiveLimit(lim, syslimit))
    IN  [i \in 1..Len(kept) |->
            FrameSummary("a.py", Some(kept[i]), "f", Some("x"))]

extract_tb(frames, lim, syslimit) ==
    extract_from_extended_frame_gen(walk_tb(frames), lim, syslimit)

extract_stack(frames, lim, syslimit) ==
    Reverse(extract_from_extended_frame_gen(walk_stack(frames), lim, syslimit))

----------------------------------------------------------------------------
\* the exception variables in the specifications that build no exception
ExcIdle ==
    /\ excs = <<>>
    /\ compact = FALSE
    /\ max_group_width = None
    /\ max_group_depth = None
    /\ nodes = <<>>
    /\ queue = <<>>
    /\ seen = {}
    /\ chain = FALSE
    /\ show_group = FALSE
    /\ ctx = None

----------------------------------------------------------------------------
(* Specification of format_list                                            *)

ListItems ==
    { <<"a.py", Some(1), "f", Some("x")>>,
      <<"a.py", Some(2), "f", Some("x")>>,
      <<"a.py", Some(1), "g", Some("x")>>,
      <<"b.py", Some(1), "f", None>>,
      <<"a.py", None, "f", None>> }

SeqsUpTo(S, n) == UNION { [1..k -> S] : k \in 0..n }

InitStack ==
    /\ pc = "start"
    /\ op = "none"
    /\ extracted_list \in SeqsUpTo(ListItems, MaxStackLen)
    /\ tb = <<>>
    /\ limit = None
    /\ tracebacklimit = None
    /\ result = <<>>
    /\ raised = NoError
    /\ local = None
    /\ heap = None
    /\ call = None
    /\ ExcIdle

FormatList ==
    /\ pc = "start"
    /\ pc' = "done"
    /\ op' = "format_list"
    /\ result' = format_list(extracted_list)
    /\ UNCHANGED <<stackVars, raised, excVars, call, local, heap>>

NextStack == FormatList

SpecStack == InitStack /\ [][NextStack]_vars

----------------------------------------------------------------------------
(* Claims about format_list and StackSummary.format                        *)

SameKey(a, b) == a[1] = b[1] /\ a[2] = b[2] /\ a[3] = b[3]

\* length of the maximal run of identical (file, line, routine) starting at i
RECURSIVE RunLen(_, _)
RunLen(s, i) ==
    IF i < Len(s) /\ SameKey(s[i], s[i + 1]) THEN 1 + RunLen(s, i + 1) ELSE 1

Rendering(item) == format_frame_summary(from_list(<<item>>)[1])

RECURSIVE RunsRendered(_, _)
RunsRendered(s, i) ==
    IF i > Len(s) THEN <<>>
    ELSE LET n == RunLen(s, i)
         IN  [k \in 1..Min(n, 3) |-> Rendering(s[i + k - 1])]
             \o (IF n > 3
                 THEN << [t |-> "repeated", count |-> n - 3,
                          word |-> IF n - 3 = 1 THEN "time" ELSE "times"] >>
                 ELSE <<>>)
             \o RunsRendered(s, i + n)

\* C1: for any sequence of frames, every maximal run of N consecutive frames
\* identical in (file, line, routine) contributes exactly min(N, 3) frame
\* blocks, followed by one summary line stating N-3 ("time" for 1, "times"
\* above) if and only if N > 3.
C1_RunsCollapsed ==
    (pc = "done" /\ op = "format_list")
        => result = RunsRendered(extracted_list, 1)

\* C10: format_list returns a list as long as its argument whose i-th string
\* is the rendering of the i-th item.
C10_SameIndex ==
    (pc = "done" /\ op = "format_list")
        => /\ Len(result) = Len(extracted_list)
           /\ \A i \in 1..Len(extracted_list) :
                  result[i] = Rendering(extracted_list[i])

----------------------------------------------------------------------------
(* Specification of extract_tb and extract_stack                           *)

Limits == {None} \cup { Some(l) : l \in (0 - MaxLimit)..MaxLimit }

InitExtract ==
    /\ pc = "start"
    /\ op = "none"
    /\ extracted_list = <<>>
    /\ \E n \in 0..MaxChain : tb = [i \in 1..n |-> i]
    /\ limit \in Limits
    /\ tracebacklimit \in {None, Some(-1), Some(0), Some(1), Some(2)}
    /\ result = <<>>
    /\ raised = NoError
    /\ local = None
    /\ heap = None
    /\ call = None
    /\ ExcIdle

ExtractTb ==
    /\ pc = "start"
    /\ pc' = "done"
    /\ op' = "extract_tb"
    /\ result' = extract_tb(tb, limit, tracebacklimit)
    /\ UNCHANGED <<stackVars, raised, excVars, call, local, heap>>

ExtractStack ==
    /\ pc = "start"
    /\ pc' = "done"
    /\ op' = "extract_stack"
    /\ result' = extract_stack(tb, limit, tracebacklimit)
    /\ UNCHANGED <<stackVars, raised, excVars, call, local, heap>>

NextExtract == ExtractTb \/ ExtractStack

SpecExtract == InitExtract /\ [][NextExtract]_vars

----------------------------------------------------------------------------
(* Claims about the frame limit policy                                     *)

LineNos(stack) == [i \in 1..Len(stack) |-> Val(stack[i].lineno)]

\* C9 as stated: with a limit, extract_tb and extract_stack both return at
\* most |limit| frames, and for a negative limit exactly the |limit| newest
\* frames of the chain.
C9_NewestWindow ==
    (pc = "done" /\ limit # None)
        => /\ Len(result) <= Abs(Val(limit))
           /\ Val(limit) < 0 =>
                LET k == Min(-Val(limit), Len(tb))
                IN  /\ Len(result) = k
                    /\ \A i \in 1..k : LineNos(result)[i] = tb[Len(tb) - k + i]

\* C9 amended: with a limit, both return at most |limit| frames, oldest
\* first; for a negative limit extract_tb keeps the |limit| newest frames
\* and extract_stack keeps the |limit| oldest frames.
C9_LimitPolicy ==
    (pc = "done" /\ limit # None)
        => /\ Len(result) <= Abs(Val(limit))
           /\ \A i, j \in 1..Len(result) :
                  i < j => LineNos(result)[i] < LineNos(result)[j]
           /\ Val(limit) < 0 =>
                LET k == Min(-Val(limit), Len(tb))
                IN  /\ Len(result) = k
                    /\ op = "extract_tb" =>
                         \A i \in 1..k : LineNos(result)[i] = tb[Len(tb) - k + i]
                    /\ op = "extract_stack" =>
                         \A i \in 1..k : LineNos(result)[i] = tb[i]

C9_Witness ==
    /\ pc = "done"
    /\ op = "extract_stack"
    /\ limit = Some(-2)
    /\ Len(tb) = 4
    /\ LineNos(result) = <<1, 2>>

----------------------------------------------------------------------------
(* TracebackException.__init__: the tree of TracebackException objects     *)
(* built from a failure and what it links to.                              *)
(*                                                                         *)
(* excs[e] holds the attributes of failure e: cause and context            *)
(* (__cause__, __context__: None or a failure), suppress_context,          *)
(* exceptions (None, or the members when e is a group), notes (__notes__)  *)
(* and tb (the frames of __traceback__).  The failure handed to the        *)
(* constructor is exc_value.  The classes of the failures modelled are not *)
(* SyntaxError, ImportError, NameError or AttributeError.                  *)

MaxNodes == 24       \* most TracebackException objects one construction makes

exc_value == "E1"

\* the test with the visited set ignored
NotSeenIgnored(e, s) == TRUE

\* id(e) not in _seen
NotSeen(e, s) == e \notin s

\* the recursive constructor call (_seen given): the object before the work
\* list has assigned its __cause__, __context__ and exceptions
NewNode(e) ==
    [exc |-> e,
     stack |-> extract_tb(excs[e].tb, None, None),
     notes |-> excs[e].notes,
     suppress_context |-> excs[e].suppress_context,
     cause |-> None,
     context |-> None,
     exceptions |-> None]

\* the top-level call up to the work list: _seen = {id(exc_value)},
\* queue = [(self, exc_value)]
Construct ==
    /\ pc = "start"
    /\ pc' = "building"
    /\ nodes' = <<NewNode(exc_value)>>
    /\ seen' = {exc_value}
    /\ queue' = <<1>>
    /\ UNCHANGED <<op, stackVars, result, raised, argVars, fmtVars, call, local, heap>>

\* one iteration of "while queue:"
QueueStep ==
    /\ pc = "building"
    /\ queue # <<>>
    /\ LET te == queue[Len(queue)]
           e == nodes[te].exc
           E == excs[e]
           mkCause == E.cause # None /\ NotSeen(Val(E.cause), seen)
           seen1 == IF mkCause THEN seen \cup {Val(E.cause)} ELSE seen
           nodes1 == IF mkCause THEN Append(nodes, NewNode(Val(E.cause))) ELSE nodes
           cause == IF mkCause THEN Some(Len(nodes1)) ELSE None
           need_context == IF compact
                           THEN cause = None /\ ~E.suppress_context
                           ELSE TRUE
           mkContext == /\ E.context # None
                        /\ need_context
                        /\ NotSeen(Val(E.context), seen1)
           seen2 == IF mkContext THEN seen1 \cup {Val(E.context)} ELSE seen1
           nodes2 == IF mkContext THEN Append(nodes1, NewNode(Val(E.context)))
                     ELSE nodes1
           context == IF mkContext THEN Some(Len(nodes2)) ELSE None
           members == IF E.exceptions # None THEN Val(E.exceptions) ELSE <<>>
           nodes3 == nodes2 \o [i \in 1..Len(members) |-> NewNode(members[i])]
           seen3 == seen2 \cup { members[i] : i \in 1..Len(members) }
           texcs == [i \in 1..Len(members) |-> Len(nodes2) + i]
           exceptions == IF E.exceptions # None THEN Some(texcs) ELSE None
       IN  /\ Len(nodes3) <= MaxNodes
           /\ nodes' = [nodes3 EXCEPT ![te].cause = cause,
                                      ![te].context = context,
                                      ![te].exceptions = exceptions]
           /\ seen' = seen3
           /\ queue' = SubSeq(queue, 1, Len(queue) - 1)
                       \o (IF cause # None THEN cause ELSE <<>>)
                       \o (IF context # None THEN context ELSE <<>>)
                       \o texcs
           /\ pc' = IF queue' = <<>> THEN "built" ELSE "building"
    /\ UNCHANGED <<op, stackVars, result, raised, argVars, fmtVars, call, local, heap>>

----------------------------------------------------------------------------
(* TracebackException.format_exception_only and TracebackException.format  *)
(*                                                                         *)
(* A string yielded through _ctx.emit is [indent, margin, body]: indent is *)
(* exception_group_depth when it was emitted, margin the margin character  *)
(* ("" at depth 0).  A string yielded directly has margin "".  body names  *)
(* the TracebackException object it was produced for (node).               *)

\* the lines of __notes__
NoteLines(te, pad) ==
    LET n == nodes[te].notes
    IN  IF n = None THEN <<>>
        ELSE IF Val(n).is_seq
        THEN Flatten([i \in 1..Len(Val(n).notes) |->
                 [j \in 1..Val(n).notes[i] |->
                     [t |-> "note", node |-> te, note |-> i, line |-> j,
                      pad |-> pad]]])
        ELSE << [t |-> "notes_repr", node |-> te, pad |-> pad] >>

\* TracebackException.format_exception_only(show_group, _depth)
RECURSIVE format_exception_only(_, _, _)
format_exception_only(te, showgroup, depth) ==
    LET final == [t |-> "exc", node |-> te, exc |-> nodes[te].exc, pad |-> depth]
        members == IF nodes[te].exceptions = None THEN <<>>
                   ELSE Val(nodes[te].exceptions)
    IN  <<final>> \o NoteLines(te, depth)
        \o (IF members # <<>> /\ showgroup
            THEN Flatten([i \in 1..Len(members) |->
                     format_exception_only(members[i], showgroup, depth + 1)])
            ELSE <<>>)

\* the link format follows from exc, with context preferred to cause
ChainedLinkContextFirst(exc) ==
    LET n == nodes[exc]
    IN  IF n.context # None /\ ~n.suppress_context
        THEN [msg |-> Some("context"), exc |-> n.context]
        ELSE IF n.cause # None
        THEN [msg |-> Some("cause"), exc |-> n.cause]
        ELSE [msg |-> None, exc |-> None]

\* (chained_msg, chained_exc) of one iteration of "while exc:"
ChainedLink(exc) ==
    LET n == nodes[exc]
    IN  IF n.cause # None
        THEN [msg |-> Some("cause"), exc |-> n.cause]
        ELSE IF n.context # None /\ ~n.suppress_context
        THEN [msg |-> Some("context"), exc |-> n.context]
        ELSE [msg |-> None, exc |-> None]

\* the list output of format when chain is true
RECURSIVE ChainWalk(_)
ChainWalk(exc) ==
    LET l == ChainedLink(exc)
    IN  << [msg |-> l.msg, exc |-> exc] >>
        \o (IF l.exc = None THEN <<>> ELSE ChainWalk(Val(l.exc)))

\* the order of emission with the walk not reversed
EmissionOrderForward(output) == output

\* "for msg, exc in reversed(output)"
EmissionOrder(output) == Reverse(output)

\* the number of banners with no room for the "more exceptions" notice
GroupRangeNoNotice(num_excs, width) == Min(num_excs, width)

\* n of "for i in range(n)"
GroupRange(num_excs, width) ==
    IF num_excs <= width THEN num_excs ELSE width + 1

\* _ExceptionPrintContext.emit
Emit(S, bodies, margin_char) ==
    [S EXCEPT !.out = @ \o [i \in 1..Len(bodies) |->
        [indent |-> S.depth,
         margin |-> IF S.depth # 0 THEN margin_char ELSE "",
         body |-> bodies[i]]]]

\* "yield _ctx.indent() + ..."
Yield(S, body) ==
    [S EXCEPT !.out = Append(@, [indent |-> S.depth, margin |-> "", body |-> body])]

Raise(S, what) == [S EXCEPT !.raised = what]

\* 'Traceback (most recent call last):' and exc.stack.format()
StackLines(exc, in_group, margin_char, S) ==
    IF nodes[exc].stack = <<>> THEN S
    ELSE LET lines == StackSummaryFormat(nodes[exc].stack)
         IN  Emit(Emit(S, << [t |-> "tb_header", node |-> exc, group |-> in_group] >>,
                       margin_char),
                  [i \in 1..Len(lines) |->
                      [t |-> "stack", node |-> exc, line |-> lines[i]]],
                  "|")

RECURSIVE FormatTE(_, _, _)
RECURSIVE FormatItems(_, _, _, _)
RECURSIVE FormatSubs(_, _, _, _, _)

\* the body of "for i in range(n)" and the loop
FormatSubs(exc, i, n, ch, S) ==
    IF i >= n \/ S.raised # NoError THEN S
    ELSE
    LET members == Val(nodes[exc].exceptions)
        num_excs == Len(members)
        last_exc == (i = n - 1)
        S1 == IF last_exc THEN [S EXCEPT !.need_close = TRUE] ELSE S
        truncated == IF max_group_width # None
                     THEN i >= Val(max_group_width) ELSE FALSE
        S2 == Yield(S1, [t |-> "banner", node |-> exc,
                         title |-> IF truncated THEN None ELSE Some(i + 1),
                         first |-> (i = 0)])
        S3 == [S2 EXCEPT !.depth = @ + 1]
        remaining == num_excs - Val(max_group_width)
        S4 == IF ~truncated THEN FormatTE(members[i + 1], ch, S3)
              ELSE Emit(S3, << [t |-> "more", node |-> exc,
                                remaining |-> remaining,
                                word |-> IF remaining > 1 THEN "exceptions"
                                         ELSE "exception"] >>, "|")
        S5 == IF last_exc /\ S4.need_close
              THEN [Yield(S4, [t |-> "close", node |-> exc])
                        EXCEPT !.need_close = FALSE]
              ELSE S4
        S6 == [S5 EXCEPT !.depth = @ - 1]
    IN  IF S4.raised # NoError THEN S4
        ELSE FormatSubs(exc, i + 1, n, ch, S6)

\* the branch with the counter left as it is at the end of a top-level group
FormatGroupNoReset(exc, ch, S) ==
    LET is_toplevel == (S.depth = 0)
        Sa == IF is_toplevel THEN [S EXCEPT !.depth = @ + 1] ELSE S
        Sb == StackLines(exc, TRUE, IF is_toplevel THEN "+" ELSE "|", Sa)
        Sc == Emit(Sb, format_exception_only(exc, FALSE, 0), "|")
        num_excs == Len(Val(nodes[exc].exceptions))
    IN  IF max_group_width = None
        THEN Raise(Sc, "TypeError")
        ELSE
        LET n == GroupRange(num_excs, Val(max_group_width))
            Sd == FormatSubs(exc, 0, n, ch, [Sc EXCEPT !.need_close = FALSE])
        IN  IF Sd.raised # NoError \/ ~is_toplevel THEN Sd
            ELSE IF Sd.depth # 1 THEN Raise(Sd, "AssertionError")
            ELSE Sd

\* the branch "format exception group"
FormatGroup(exc, ch, S) ==
    LET is_toplevel == (S.depth = 0)
        Sa == IF is_toplevel THEN [S EXCEPT !.depth = @ + 1] ELSE S
        Sb == StackLines(exc, TRUE, IF is_toplevel THEN "+" ELSE "|", Sa)
        Sc == Emit(Sb, format_exception_only(exc, FALSE, 0), "|")
        num_excs == Len(Val(nodes[exc].exceptions))
    IN  IF max_group_width = None
        THEN Raise(Sc, "TypeError")   \* num_excs <= None
        ELSE
        LET n == GroupRange(num_excs, Val(max_group_width))
            Sd == FormatSubs(exc, 0, n, ch, [Sc EXCEPT !.need_close = FALSE])
        IN  IF Sd.raised # NoError \/ ~is_toplevel THEN Sd
            ELSE IF Sd.depth # 1 THEN Raise(Sd, "AssertionError")
            ELSE [Sd EXCEPT !.depth = 0]

\* the body of "for msg, exc in reversed(output)"
FormatItem(item, ch, S) ==
    LET exc == item.exc
        S1 == IF item.msg # None
              THEN Emit(S, << [t |-> "sep", node |-> exc, link |-> Val(item.msg)] >>,
                        "|")
              ELSE S
    IN  IF nodes[exc].exceptions = None
        THEN Emit(StackLines(exc, FALSE, "|", S1),
                  format_exception_only(exc, FALSE, 0), "|")
        ELSE IF max_group_depth = None
        THEN Raise(S1, "TypeError")   \* exception_group_depth > None
        ELSE IF S1.depth > Val(max_group_depth)
        THEN Emit(S1, << [t |-> "depth_trunc", node |-> exc,
                          max_group_depth |-> Val(max_group_depth)] >>, "|")
        ELSE FormatGroup(exc, ch, S1)

FormatItems(items, k, ch, S) ==
    IF k > Len(items) \/ S.raised # NoError THEN S
    ELSE FormatItems(items, k + 1, ch, FormatItem(items[k], ch, S))

\* TracebackException.format(chain, _ctx)
FormatTE(self, ch, S) ==
    LET output == IF ch THEN ChainWalk(self)
                  ELSE << [msg |-> None, exc |-> self] >>
    IN  FormatItems(EmissionOrder(output), 1, ch, S)

\* _ExceptionPrintContext() with nothing emitted yet
NewContext ==
    [out |-> <<>>, depth |-> 0, need_close |-> FALSE, raised |-> NoError]

\* list(te.format(chain=chain))
Format ==
    /\ pc = "built"
    /\ pc' = "done"
    /\ op' = "format"
    /\ \E ch \in BOOLEAN :
         LET S == FormatTE(1, ch, NewContext)
         IN  /\ chain' = ch
             /\ result' = S.out
             /\ raised' = S.raised
             /\ ctx' = Some([exception_group_depth |-> S.depth,
                             need_close |-> S.need_close])
    /\ UNCHANGED <<stackVars, argVars, treeVars, show_group, call, local, heap>>

\* list(te.format_exception_only(show_group=show_group))
FormatExceptionOnly ==
    /\ pc = "built"
    /\ pc' = "done"
    /\ op' = "format_exception_only"
    /\ \E sg \in BOOLEAN :
         /\ show_group' = sg
         /\ result' = [i \in 1..Len(format_exception_only(1, sg, 0)) |->
                          [indent |-> 0, margin |-> "",
                           body |-> format_exception_only(1, sg, 0)[i]]]
    /\ UNCHANGED <<stackVars, argVars, treeVars, raised, chain, ctx, call, local, heap>>

----------------------------------------------------------------------------
(* Specification of construction and rendering of chained failures: three  *)
(* failures that are not groups, with every combination of cause, context  *)
(* and suppress_context, cycles included.                                  *)

DEFAULT_MAX_GROUP_WIDTH == 15
DEFAULT_MAX_GROUP_DEPTH == 10

Opt(S) == {None} \cup { Some(x) : x \in S }

ChainExcs == {"E1", "E2", "E3"}

\* the frames of __traceback__: E1 was caught two frames up, E2 in the
\* frame that raised it, the other failures were never raised
TbOf(e) == IF e = "E1" THEN <<1, 2>> ELSE IF e = "E2" THEN <<1>> ELSE <<>>

\* cause, context and suppress_context of one failure; suppress_context is
\* read only next to a context, so it is left false without one
LinkOpts ==
    { r \in [cause : Opt(ChainExcs), context : Opt(ChainExcs),
             suppress_context : BOOLEAN] :
        r.context = None => ~r.suppress_context }

NoLinks == [cause |-> None, context |-> None, suppress_context |-> FALSE]

\* the failures that R reaches through cause and context in at most k steps;
\* the attributes of the others are never read and are left at NoLinks
RECURSIVE Reached(_, _, _)
Reached(links, R, k) ==
    IF k = 0 THEN R
    ELSE Reached(links,
                 R \cup { Val(links[e].cause) : e \in { x \in R : links[x].cause # None } }
                   \cup { Val(links[e].context) : e \in { x \in R : links[x].context # None } },
                 k - 1)

InitChain ==
    /\ pc = "start"
    /\ op = "none"
    /\ extracted_list = <<>>
    /\ tb = <<>>
    /\ limit = None
    /\ tracebacklimit = None
    /\ result = <<>>
    /\ raised = NoError
    /\ local = None
    /\ heap = None
    /\ call = None
    /\ \E links \in [ChainExcs -> LinkOpts] :
         /\ \A e \in ChainExcs \ Reached(links, {exc_value}, Cardinality(ChainExcs)) :
                links[e] = NoLinks
         /\ excs = [e \in ChainExcs |->
                       [cause |-> links[e].cause,
                        context |-> links[e].context,
                        suppress_context |-> links[e].suppress_context,
                        exceptions |-> None,
                        notes |-> None,
                        tb |-> TbOf(e)]]
    /\ compact \in BOOLEAN
    /\ max_group_width = Some(DEFAULT_MAX_GROUP_WIDTH)
    /\ max_group_depth = Some(DEFAULT_MAX_GROUP_DEPTH)
    /\ nodes = <<>>
    /\ queue = <<>>
    /\ seen = {}
    /\ chain = FALSE
    /\ show_group = FALSE
    /\ ctx = None

NextChain == Construct \/ QueueStep \/ Format

SpecChain == InitChain /\ [][NextChain]_vars

\* the constructor alone: the top-level call and its work list
NextBuild == Construct \/ QueueStep

\* once called, the constructor runs on until its work list is empty
FairSpecBuild == InitChain /\ [][NextBuild]_vars /\ WF_vars(NextBuild)

----------------------------------------------------------------------------
(* Claims about chained failures                                           *)

Formatted == pc = "done" /\ op = "format"

\* the strings of result that belong to the block of node n: all the
\* strings produced for n but the separator before them
BlockIdx(n) ==
    { i \in 1..Len(result) : result[i].body.node = n /\ result[i].body.t # "sep" }

Rendered(n) == BlockIdx(n) # {}

FirstIdx(n) == CHOOSE i \in BlockIdx(n) : \A j \in BlockIdx(n) : i <= j
LastIdx(n) == CHOOSE i \in BlockIdx(n) : \A j \in BlockIdx(n) : j <= i

\* result as separators and blocks: consecutive strings of one failure's
\* block are one unit
RECURSIVE Units(_, _)
Units(i, prev) ==
    IF i > Len(result) THEN <<>>
    ELSE LET b == result[i].body
             u == IF b.t = "sep" THEN <<"sep", b.link>>
                  ELSE <<"block", nodes[b.node].exc>>
         IN  (IF u = prev /\ b.t # "sep" THEN <<>> ELSE <<u>>) \o Units(i + 1, u)

\* the failures from e along __cause__, up to the first one without a cause
\* or whose cause is already on the path
RECURSIVE CausePath(_, _)
CausePath(e, visited) ==
    LET c == excs[e].cause
    IN  <<e>> \o (IF c = None \/ Val(c) \in visited \cup {e} THEN <<>>
                  ELSE CausePath(Val(c), visited \cup {e}))

PureCauseChain ==
    \A i \in 1..Len(CausePath(exc_value, {})) :
        excs[CausePath(exc_value, {})[i]].context = None

C3_CauseBeforeContext ==
    (Formatted /\ chain)
        => /\ Rendered(1)
           /\ LastIdx(1) = Len(result)
           /\ \A n \in 1..Len(nodes) :
                LET nd == nodes[n]
                    Follows(c, link) ==
                        /\ Rendered(c)
                        /\ FirstIdx(n) = LastIdx(c) + 2
                        /\ result[FirstIdx(n) - 1].body.t = "sep"
                        /\ result[FirstIdx(n) - 1].body.link = link
                IN  /\ (Rendered(n) /\ nd.cause # None)
                        => Follows(Val(nd.cause), "cause")
                    /\ (Rendered(n) /\ nd.cause = None /\ nd.context # None
                            /\ ~nd.suppress_context)
                        => Follows(Val(nd.context), "context")
                    /\ (Rendered(n) /\ nd.cause = None
                            /\ (nd.context = None \/ nd.suppress_context))
                        => FirstIdx(n) = 1
                    /\ (nd.context # None /\ (nd.cause # None \/ nd.suppress_context))
                        => ~Rendered(Val(nd.context))
                    /\ (~Rendered(n) /\ nd.cause # None) => ~Rendered(Val(nd.cause))
                    /\ (~Rendered(n) /\ nd.context # None) => ~Rendered(Val(nd.context))

C3_Witness ==
    /\ Formatted
    /\ chain
    /\ nodes[1].cause # None
    /\ nodes[1].context # None
    /\ Rendered(Val(nodes[1].cause))
    /\ ~Rendered(Val(nodes[1].context))
    /\ result[FirstIdx(1) - 1].body.link = "cause"

\* what the finished tree holds for the links of the failures
LinksOfTree ==
    /\ \A m, n \in 1..Len(nodes) : nodes[m].exc = nodes[n].exc => m = n
    /\ \A n \in 1..Len(nodes) :
         LET nd == nodes[n]
             E == excs[nd.exc]
             Visited(e) == \E m \in 1..Len(nodes) : nodes[m].exc = e
         IN  /\ nd.cause # None =>
                  /\ E.cause # None
                  /\ nodes[Val(nd.cause)].exc = Val(E.cause)
             /\ nd.context # None =>
                  /\ E.context # None
                  /\ nodes[Val(nd.context)].exc = Val(E.context)
             /\ (E.cause # None /\ nd.cause = None) => Visited(Val(E.cause))
             /\ (E.context # None /\ nd.context = None /\ ~compact)
                    => Visited(Val(E.context))

\* C4: construction from failures whose cause and context links form any
\* graph, cycles and A.cause == A included, terminates, and a link to a
\* failure already visited in this build is absent from the tree: no
\* failure has two nodes, and a declared link is absent only when its
\* target has a node of its own (or, for a context, when compact drops it).
C4_Terminates ==
    /\ <>(pc = "built")
    /\ [](pc = "built" => LinksOfTree)

C4_Witness ==
    /\ pc = "built"
    /\ excs[exc_value].cause = Some(exc_value)
    /\ nodes[1].cause = None
    /\ \E n \in 1..Len(nodes) :
         /\ n # 1
         /\ excs[nodes[n].exc].cause = Some(exc_value)

----------------------------------------------------------------------------
(* Specification of construction and rendering of groups: four failures,   *)
(* each a group of later ones or not a group, rendered under every small   *)
(* width and depth cap, with one optional cause or context link and        *)
(* optional notes on the failure rendered.                                  *)

MaxWidth == 3        \* largest max_group_width tried besides the default
MaxDepth == 3        \* largest max_group_depth tried besides the default
WideGroup == 20      \* members of the wide group

GroupExcs == <<"E1", "E2", "E3", "E4">>

GroupIds == { GroupExcs[i] : i \in 1..Len(GroupExcs) }

\* the failures created after GroupExcs[i]: a group is created from
\* failures that exist already, so its members come later in GroupExcs
Later(i) == { GroupExcs[j] : j \in (i + 1)..Len(GroupExcs) }

InSet(S, x) == x \in S

\* None (not a group) or the members of a group
Shapes(i) ==
    {None} \cup { Some(SelectSeq(GroupExcs, LAMBDA x : InSet(M, x))) :
                    M \in (SUBSET Later(i)) \ {{}} }

ShapeChoices ==
    { shape \in [1..Len(GroupExcs) -> UNION { Shapes(i) : i \in 1..Len(GroupExcs) }] :
        \A i \in 1..Len(GroupExcs) : shape[i] \in Shapes(i) }

NotesOpts ==
    { None,
      Some([is_seq |-> TRUE, notes |-> <<>>]),
      Some([is_seq |-> TRUE, notes |-> <<1, 2>>]),
      Some([is_seq |-> FALSE, notes |-> <<>>]) }

Widths == {None, Some(DEFAULT_MAX_GROUP_WIDTH)} \cup { Some(w) : w \in 0..MaxWidth }
Depths == {None, Some(DEFAULT_MAX_GROUP_DEPTH)} \cup { Some(d) : d \in 0..MaxDepth }

GroupExc(shape, i, lnk, nts) ==
    LET e == GroupExcs[i]
    IN  [cause |-> IF lnk # None /\ Val(lnk).kind = "cause" /\ Val(lnk).src = e
                   THEN Some(Val(lnk).dst) ELSE None,
         context |-> IF lnk # None /\ Val(lnk).kind = "context" /\ Val(lnk).src = e
                     THEN Some(Val(lnk).dst) ELSE None,
         suppress_context |-> FALSE,
         exceptions |-> shape[i],
         notes |-> IF e = exc_value THEN nts ELSE None,
         tb |-> TbOf(e)]

GroupArgs(shape, lnk, nts) ==
    [e \in GroupIds |->
        GroupExc(shape, CHOOSE i \in 1..Len(GroupExcs) : GroupExcs[i] = e, lnk, nts)]

LinkChoices ==
    Opt([kind : {"cause", "context"}, src : GroupIds, dst : GroupIds])

InitGroup ==
    /\ pc = "start"
    /\ op = "none"
    /\ extracted_list = <<>>
    /\ tb = <<>>
    /\ limit = None
    /\ tracebacklimit = None
    /\ result = <<>>
    /\ raised = NoError
    /\ local = None
    /\ heap = None
    /\ call = None
    /\ compact = FALSE
    /\ \/ \E shape \in ShapeChoices :
            /\ excs = GroupArgs(shape, None, None)
            /\ max_group_width \in Widths
            /\ max_group_depth \in Depths
       \/ \E shape \in ShapeChoices :
            /\ \E nts \in NotesOpts \ {None} : excs = GroupArgs(shape, None, nts)
            /\ max_group_width = Some(DEFAULT_MAX_GROUP_WIDTH)
            /\ max_group_depth = Some(DEFAULT_MAX_GROUP_DEPTH)
       \/ \E shape \in ShapeChoices :
            /\ \E lnk \in LinkChoices \ {None} : excs = GroupArgs(shape, lnk, None)
            /\ \/ /\ max_group_width = Some(DEFAULT_MAX_GROUP_WIDTH)
                  /\ max_group_depth = Some(DEFAULT_MAX_GROUP_DEPTH)
               \/ /\ max_group_width = Some(1)
                  /\ max_group_depth = Some(1)
       \/ /\ excs = GroupArgs(
                       [i \in 1..Len(GroupExcs) |->
                           IF i = 1
                           THEN Some([k \in 1..WideGroup |-> GroupExcs[Len(GroupExcs)]])
                           ELSE None],
                       None, None)
          /\ max_group_width = Some(DEFAULT_MAX_GROUP_WIDTH)
          /\ max_group_depth = Some(DEFAULT_MAX_GROUP_DEPTH)
    /\ nodes = <<>>
    /\ queue = <<>>
    /\ seen = {}
    /\ chain = FALSE
    /\ show_group = FALSE
    /\ ctx = None

NextGroup == Construct \/ QueueStep \/ Format \/ FormatExceptionOnly

SpecGroup == InitGroup /\ [][NextGroup]_vars

----------------------------------------------------------------------------
(* Claims about groups                                                     *)

IsGroup(n) == nodes[n].exceptions # None

Members(n) == Val(nodes[n].exceptions)

\* the positions in result of the strings of kind t produced for node n
Strings(n, t) ==
    { i \in 1..Len(result) : result[i].body.node = n /\ result[i].body.t = t }

\* a group rendered in full: its own message line was emitted by format
Full(n) == Strings(n, "exc") # {}

\* the titles of the banners of group n, in the order emitted
RECURSIVE Titles(_, _)
Titles(n, i) ==
    IF i > Len(result) THEN <<>>
    ELSE (IF i \in Strings(n, "banner") THEN <<result[i].body.title>> ELSE <<>>)
         \o Titles(n, i + 1)

\* C5: a group with N sub-failures rendered under width cap W emits N
\* numbered banners 1..N and no notice when N <= W; when N > W it emits W
\* numbered banners 1..W, renders only the first W sub-failures and emits
\* one notice "and N-W more exception(s)", singular when N-W = 1.
C5_WidthCap ==
    (Formatted /\ raised = NoError /\ max_group_width # None)
        => \A g \in 1..Len(nodes) :
             (IsGroup(g) /\ Full(g)) =>
                LET N == Len(Members(g))
                    W == Val(max_group_width)
                    more == Strings(g, "more")
                IN  /\ Titles(g, 1) =
                         [k \in 1..(IF N <= W THEN N ELSE W + 1) |->
                             IF k <= W THEN Some(k) ELSE None]
                    /\ \A k \in 1..N : Rendered(Members(g)[k]) <=> k <= W
                    /\ IF N <= W THEN more = {}
                       ELSE /\ Cardinality(more) = 1
                            /\ \A i \in more :
                                 /\ result[i].body.remaining = N - W
                                 /\ result[i].body.word =
                                      IF N - W = 1 THEN "exception" ELSE "exceptions"

C5_Witness ==
    /\ Formatted
    /\ raised = NoError
    /\ IsGroup(1)
    /\ Len(Members(1)) = WideGroup
    /\ max_group_width = Some(DEFAULT_MAX_GROUP_WIDTH)
    /\ Cardinality({ i \in Strings(1, "banner") : result[i].body.title # None })
         = DEFAULT_MAX_GROUP_WIDTH
    /\ \E i \in Strings(1, "more") :
         /\ result[i].body.remaining = WideGroup - DEFAULT_MAX_GROUP_WIDTH
         /\ result[i].body.word = "exceptions"

\* the group that node n is a member of
Parent(n) ==
    CHOOSE g \in 1..Len(nodes) :
        IsGroup(g) /\ \E k \in 1..Len(Members(g)) : Members(g)[k] = n

\* nesting level: 1 for the top-level group, one more for each group a
\* group is nested in as a sub-failure
RECURSIVE Level(_)
Level(n) == IF n = 1 THEN 1 ELSE 1 + Level(Parent(n))

NoLinks4 ==
    \A e \in DOMAIN excs : excs[e].cause = None /\ excs[e].context = None

\* C6: with the top-level group at nesting level 1, for every
\* max_group_depth D >= 0 a group is rendered in full if and only if its
\* level is <= D; a group whose level exceeds D produces only the
\* truncation notice and none of its sub-failures is rendered.
C6_DepthCap ==
    (Formatted /\ raised = NoError /\ NoLinks4
        /\ max_group_depth # None /\ max_group_width # None)
        => \A g \in 1..Len(nodes) :
             (IsGroup(g) /\ (g = 1 \/ Rendered(g))) =>
                /\ Full(g) <=> Level(g) <= Val(max_group_depth)
                /\ Level(g) > Val(max_group_depth) =>
                     /\ \A i \in BlockIdx(g) : result[i].body.t = "depth_trunc"
                     /\ Cardinality(BlockIdx(g)) = 1
                     /\ \A k \in 1..Len(Members(g)) : ~Rendered(Members(g)[k])

\* C7: the last string of format() and of format_exception_only() is the
\* line naming the exception (kind and message) of the failure rendered.
C7_MessageLast ==
    (pc = "done" /\ raised = NoError)
        => /\ result # <<>>
           /\ result[Len(result)].body.t = "exc"
           /\ result[Len(result)].body.node = 1

\* C8: format() of a constructed tree never raises, whatever
\* max_group_width and max_group_depth the constructor was given.
C8_NeverRaises ==
    Formatted => raised = NoError

----------------------------------------------------------------------------
(* Names and their edit distance.  A name is a sequence of characters; the *)
(* characters of the model are two letters in both cases and a third one.  *)

Chars == {"a", "A", "b"}

lower(ch) == CASE ch = "A" -> "a" [] ch = "B" -> "b" [] OTHER -> ch

MAX_CANDIDATE_ITEMS == 750
MAX_STRING_SIZE == 40
MOVE_COST == 2
CASE_COST == 1

substitution_cost(ch_a, ch_b) ==
    IF ch_a = ch_b THEN 0
    ELSE IF lower(ch_a) = lower(ch_b) THEN CASE_COST
    ELSE MOVE_COST

\* while a[pre:] and b[pre:] and a[pre] == b[pre]: pre += 1
RECURSIVE CommonPrefix(_, _, _)
CommonPrefix(a, b, pre) ==
    IF pre < Len(a) /\ pre < Len(b) /\ a[pre + 1] = b[pre + 1]
    THEN CommonPrefix(a, b, pre + 1)
    ELSE pre

\* while a[:post or None] and b[:post or None] and a[post-1] == b[post-1]:
\*     post -= 1
\* (post counts down from 0; a[:0 or None] is the whole of a)
RECURSIVE CommonSuffix(_, _, _)
CommonSuffix(a, b, post) ==
    IF Len(a) + post > 0 /\ Len(b) + post > 0
          /\ a[Len(a) + post] = b[Len(b) + post]
    THEN CommonSuffix(a, b, post - 1)
    ELSE post

\* a[pre:] and then a[:post or None]
Trimmed(a, b) ==
    LET pre == CommonPrefix(a, b, 0)
        a1 == SubSeq(a, pre + 1, Len(a))
        b1 == SubSeq(b, pre + 1, Len(b))
        post == CommonSuffix(a1, b1, 0)
    IN  [a |-> SubSeq(a1, 1, Len(a1) + post),
         b |-> SubSeq(b1, 1, Len(b1) + post)]

\* 'if minimum > max_cost' with minimum still sys.maxsize written as None
RowTooBigAtCap(minimum, max_cost) ==
    minimum = None \/ Val(minimum) >= max_cost

RowTooBig(minimum, max_cost) ==
    minimum = None \/ Val(minimum) > max_cost

\* the inner loop 'for index in range(len(a))', from index on
RECURSIVE RowLoop(_, _, _, _, _, _, _)
RowLoop(a, bchar, row, index, distance, res, minimum) ==
    IF index > Len(a) THEN [row |-> row, result |-> res, minimum |-> minimum]
    ELSE LET substitute == distance + substitution_cost(bchar, a[index])
             distance2 == row[index]
             insert_delete == Min(res, distance2) + MOVE_COST
             res2 == Min(insert_delete, substitute)
             minimum2 == IF minimum = None \/ res2 < Val(minimum)
                         THEN Some(res2) ELSE minimum
         IN  RowLoop(a, bchar, [row EXCEPT ![index] = res2], index + 1,
                     distance2, res2, minimum2)

\* the outer loop 'for bindex in range(len(b))', from bindex on, and the
\* final 'return result'
RECURSIVE Rows(_, _, _, _, _, _)
Rows(a, b, max_cost, row, bindex, res) ==
    IF bindex > Len(b) THEN res
    ELSE LET start == (bindex - 1) * MOVE_COST
             r == RowLoop(a, b[bindex], row, 1, start, start, None)
         IN  IF RowTooBig(r.minimum, max_cost) THEN max_cost + 1
             ELSE Rows(a, b, max_cost, r.row, bindex + 1, r.result)

levenshtein_distance(a0, b0, max_cost) ==
    IF a0 = b0 THEN 0
    ELSE LET t == Trimmed(a0, b0)
         IN  IF t.a = <<>> \/ t.b = <<>>
             THEN MOVE_COST * (Len(t.a) + Len(t.b))
             ELSE IF Len(t.a) > MAX_STRING_SIZE \/ Len(t.b) > MAX_STRING_SIZE
             THEN max_cost + 1
             ELSE LET a == IF Len(t.b) < Len(t.a) THEN t.b ELSE t.a
                      b == IF Len(t.b) < Len(t.a) THEN t.a ELSE t.b
                  IN  IF (Len(b) - Len(a)) * MOVE_COST > max_cost
                      THEN max_cost + 1
                      ELSE Rows(a, b, max_cost,
                                [i \in 1..Len(a) |-> MOVE_COST * i], 1, 0)

----------------------------------------------------------------------------
(* Specification of _levenshtein_distance                                  *)

MaxNameLen == 3      \* longest name of the exhaustive part
MaxCost == 6         \* largest max_cost

Names(n) == SeqsUpTo(Chars, n)

\* a name one character longer than MAX_STRING_SIZE: ch at both ends
LongName(ch) ==
    [i \in 1..(MAX_STRING_SIZE + 1) |->
        IF i = 1 \/ i = MAX_STRING_SIZE + 1 THEN ch ELSE "b"]

LongNames == {LongName("a"), LongName("A")}

InitDistance ==
    /\ pc = "start"
    /\ op = "none"
    /\ extracted_list = <<>>
    /\ tb = <<>>
    /\ limit = None
    /\ tracebacklimit = None
    /\ result = <<>>
    /\ raised = NoError
    /\ local = None
    /\ heap = None
    /\ ExcIdle
    /\ \E a \in Names(MaxNameLen) \cup LongNames,
          b \in Names(MaxNameLen) \cup LongNames,
          max_cost \in 0..MaxCost :
         call = [a |-> a, b |-> b, max_cost |-> max_cost]

LevenshteinDistance ==
    /\ pc = "start"
    /\ pc' = "done"
    /\ op' = "_levenshtein_distance"
    /\ result' = levenshtein_distance(call.a, call.b, call.max_cost)
    /\ UNCHANGED <<stackVars, raised, excVars, call, local, heap>>

NextDistance == LevenshteinDistance

SpecDistance == InitDistance /\ [][NextDistance]_vars

\* the cost the claim gives to putting y where x was
EditCost(x, y) ==
    IF x = y THEN 0 ELSE IF lower(x) = lower(y) THEN 1 ELSE 2

SetMin(S) == CHOOSE m \in S : \A x \in S : m <= x

\* the row for b[..j] of the full edit-distance table, from the row for
\* b[..j-1]: entry i + 1 is the distance between a[..i] and b[..j], the
\* cheapest way to reach it from the row above (straight down, or
\* diagonally with a substitution) and then along the row
TableRow(a, y, prev) ==
    LET down(k) == IF k = 1 THEN prev[1] + 2
                   ELSE Min(prev[k] + 2, prev[k - 1] + EditCost(a[k - 1], y))
        row == [i \in 1..(Len(a) + 1) |->
                   SetMin({ down(k) + 2 * (i - k) : k \in 1..i })]
    IN  SubSeq(row, 1, Len(a) + 1)

RECURSIVE Table(_, _, _, _)
Table(a, b, j, prev) ==
    IF j > Len(b) THEN prev
    ELSE LET row == TableRow(a, b[j], prev)
         IN  IF Len(row) = Len(prev) THEN Table(a, b, j + 1, row) ELSE <<>>

\* the weighted edit distance between a and b
WeightedDistance(a, b) ==
    Table(a, b, 1, [i \in 1..(Len(a) + 1) |-> 2 * (i - 1)])[Len(a) + 1]

DistanceDone == pc = "done" /\ op = "_levenshtein_distance"

\* C20 as claimed: for all a, b and max_cost >= 0 the result is the
\* weighted edit distance when that is <= max_cost, and a value > max_cost
\* otherwise.
C20_BoundedDistance ==
    DistanceDone =>
        LET d == WeightedDistance(call.a, call.b)
        IN  IF d <= call.max_cost THEN result = d ELSE result > call.max_cost

\* what is left of both names has more than MAX_STRING_SIZE characters in
\* one of them and is empty in neither
TooLong(a, b) ==
    LET t == Trimmed(a, b)
    IN  /\ a # b
        /\ t.a # <<>> /\ t.b # <<>>
        /\ (Len(t.a) > 40 \/ Len(t.b) > 40)

\* C20 as amended: the claim holds unless, once the common prefix and
\* suffix are removed, both names are non-empty and one of them is longer
\* than 40 characters; in that case the result is max_cost + 1.
C20_BoundedDistanceUpTo40 ==
    DistanceDone =>
        LET d == WeightedDistance(call.a, call.b)
        IN  IF TooLong(call.a, call.b) THEN result = call.max_cost + 1
            ELSE IF d <= call.max_cost THEN result = d
            ELSE result > call.max_cost

\* prefix and suffix are stripped, the table is run, and the distance found
\* is the cap itself
C20_Witness ==
    /\ DistanceDone
    /\ call.a = <<"a", "b", "A">>
    /\ call.b = <<"a", "A", "A">>
    /\ call.max_cost = 2
    /\ result = 2

----------------------------------------------------------------------------
(* _compute_suggestion_error.  exc_value is known by its kind; d is the    *)
(* list of names dir() or the frame gave, None when dir() or __import__    *)
(* raised; wrong_name is None when it is None or not a str.                *)

\* 'if possible_name == wrong_name: continue'
IsExactNameNever(possible_name, wrong_name) == FALSE

IsExactName(possible_name, wrong_name) == possible_name = wrong_name

\* 'if wrong_name_len > _MAX_STRING_SIZE'
NameTooLongOver41(wrong_name) == Len(wrong_name) > MAX_STRING_SIZE + 1

NameTooLong(wrong_name) == Len(wrong_name) > MAX_STRING_SIZE

\* 'not suggestion': None and the empty string are false
NotSuggestion(suggestion) == suggestion = None \/ Val(suggestion) = <<>>

\* one turn of the loop 'for possible_name in d'; st holds best_distance
\* and suggestion
LoopBody(st, possible_name, wrong_name) ==
    LET max_distance ==
            Min(((Len(possible_name) + Len(wrong_name) + 3) * MOVE_COST) \div 6,
                st.best_distance - 1)
        current_distance ==
            levenshtein_distance(wrong_name, possible_name, max_distance)
    IN  IF IsExactName(possible_name, wrong_name) THEN st
        ELSE IF current_distance > max_distance THEN st
        ELSE IF NotSuggestion(st.suggestion)
                   \/ current_distance < st.best_distance
        THEN [best_distance |-> current_distance,
              suggestion |-> Some(possible_name)]
        ELSE st

\* the turns of the loop for d[lo], ..., d[hi] in this order, written as
\* the turns of the first half followed by those of the second half; once
\* best_distance is 0 no later turn changes anything, since max_distance is
\* then -1 and no distance is negative
RECURSIVE ClosestMatch(_, _, _, _, _)
ClosestMatch(d, wrong_name, lo, hi, st) ==
    IF lo > hi THEN st
    ELSE IF lo = hi THEN LoopBody(st, d[lo], wrong_name)
    ELSE LET mid == (lo + hi) \div 2
             first == ClosestMatch(d, wrong_name, lo, mid, st)
         IN  IF first.best_distance <= 0 THEN first
             ELSE ClosestMatch(d, wrong_name, mid + 1, hi, first)

\* from '# Compute closest match' to the end
ComputeClosestMatch(d, wrong_name) ==
    IF Len(d) > MAX_CANDIDATE_ITEMS THEN None
    ELSE IF NameTooLong(wrong_name) THEN None
    ELSE ClosestMatch(d, wrong_name, 1, Len(d),
                      [best_distance |-> Len(wrong_name),
                       suggestion |-> None]).suggestion

\* f"self.{wrong_name}"
SelfAttribute(wrong_name) == <<"s", "e", "l", "f", ".">> \o wrong_name

compute_suggestion_error(c) ==
    IF c.wrong_name = None THEN None
    ELSE IF c.kind \in {"AttributeError", "ImportError"}
    THEN IF c.d = None THEN None
         ELSE ComputeClosestMatch(Val(c.d), Val(c.wrong_name))
    ELSE IF ~c.tb THEN None
    ELSE IF c.self_attr THEN Some(SelfAttribute(Val(c.wrong_name)))
    ELSE ComputeClosestMatch(Val(c.d), Val(c.wrong_name))

----------------------------------------------------------------------------
(* Specification of _compute_suggestion_error                              *)

MaxWrongLen == 2     \* longest wrong_name of the exhaustive part
MaxCands == 3        \* longest candidate list of the exhaustive part

Pool == { <<"a">>, <<"A">>, <<"a", "a">>, <<"A", "a">>, <<"a", "A">>, <<"a", "b">> }

\* how often a name occurs in a list
Count(d, name) == Cardinality({ i \in 1..Len(d) : d[i] = name })

\* locals + globals + builtins of a frame: a name at most once in each
FrameNames ==
    { d \in SeqsUpTo(Pool, MaxCands) : \A name \in Pool : Count(d, name) <= 3 }

\* a sorted list as dir() gives it: first once, then n times name
DirList(first, name, n) == [i \in 1..(n + 1) |-> IF i = 1 THEN first ELSE name]

\* a name of n characters "b" with ch in the middle
MidName(ch, n) == [i \in 1..n |-> IF i = n \div 2 THEN ch ELSE "b"]

\* wrong_name and candidates at the two limits
AtLimits ==
    { [wrong_name |-> <<"a", "b">>,
       d |-> DirList(<<"A", "b">>, <<"a", "b">>, MAX_CANDIDATE_ITEMS)],
      [wrong_name |-> <<"a", "b">>,
       d |-> DirList(<<"A", "b">>, <<"a", "b">>, MAX_CANDIDATE_ITEMS - 1)],
      [wrong_name |-> <<"a", "b">>,
       d |-> DirList(<<"A", "b">>, <<"b", "b", "b">>, MAX_CANDIDATE_ITEMS)],
      [wrong_name |-> <<"a", "b">>,
       d |-> DirList(<<"A", "b">>, <<"b", "b", "b">>, MAX_CANDIDATE_ITEMS - 1)],
      [wrong_name |-> MidName("a", MAX_STRING_SIZE + 1),
       d |-> << MidName("A", MAX_STRING_SIZE + 1) >>],
      [wrong_name |-> MidName("a", MAX_STRING_SIZE),
       d |-> << MidName("A", MAX_STRING_SIZE) >>] }

Kinds == {"AttributeError", "ImportError", "NameError"}

InitSuggest ==
    /\ pc = "start"
    /\ op = "none"
    /\ extracted_list = <<>>
    /\ tb = <<>>
    /\ limit = None
    /\ tracebacklimit = None
    /\ result = <<>>
    /\ raised = NoError
    /\ local = None
    /\ heap = None
    /\ ExcIdle
    /\ \/ \E wrong_name \in Names(MaxWrongLen), d \in FrameNames :
            call = [kind |-> "NameError", wrong_name |-> Some(wrong_name),
                    d |-> Some(d), tb |-> TRUE, self_attr |-> FALSE]
       \/ \E kind \in Kinds, has_tb \in BOOLEAN, self_attr \in BOOLEAN,
             wrong_name \in {None, Some(<<"a", "a">>)},
             d \in {None, Some(<< <<"a", "A">> >>)} :
            /\ kind = "NameError" => d # None
            /\ call = [kind |-> kind, wrong_name |-> wrong_name,
                       d |-> d, tb |-> has_tb, self_attr |-> self_attr]
       \/ \E kind \in {"AttributeError", "NameError"}, self_attr \in BOOLEAN,
             lim \in AtLimits :
            /\ kind = "NameError" => Len(lim.d) <= 3
            /\ call = [kind |-> kind, wrong_name |-> Some(lim.wrong_name),
                       d |-> Some(lim.d), tb |-> TRUE, self_attr |-> self_attr]

ComputeSuggestionError ==
    /\ pc = "start"
    /\ pc' = "done"
    /\ op' = "_compute_suggestion_error"
    /\ result' = compute_suggestion_error(call)
    /\ UNCHANGED <<stackVars, raised, excVars, call, local, heap>>

NextSuggest == ComputeSuggestionError

SpecSuggest == InitSuggest /\ [][NextSuggest]_vars

SuggestDone == pc = "done" /\ op = "_compute_suggestion_error"

\* the call got as far as the search over the candidates and neither limit
\* stopped it
SearchRan ==
    /\ SuggestDone
    /\ call.wrong_name # None
    /\ call.d # None
    /\ call.kind = "NameError" => (call.tb /\ ~call.self_attr)
    /\ Len(Val(call.d)) <= 750
    /\ Len(Val(call.wrong_name)) <= 40

\* the cap on the distance of a candidate
DistanceCap(candidate, wrong_name) ==
    ((Len(candidate) + Len(wrong_name) + 3) * 2) \div 6

\* the places of the candidates that may be suggested
Eligible(d, wrong_name) ==
    { i \in 1..Len(d) :
        /\ d[i] # wrong_name
        /\ WeightedDistance(wrong_name, d[i]) <= DistanceCap(d[i], wrong_name) }

\* the first of the eligible candidates at the smallest distance
Closest(d, wrong_name) ==
    LET E == Eligible(d, wrong_name)
        dist(i) == WeightedDistance(wrong_name, d[i])
    IN  IF E = {} THEN None
        ELSE Some(d[CHOOSE i \in E :
                      \A j \in E : dist(i) < dist(j) \/ (dist(i) = dist(j) /\ i <= j)])

\* C11: the search returns, among the candidates that are not wrong_name
\* and whose weighted distance d to it is <= (len(candidate) +
\* len(wrong_name) + 3) * 2 // 6, the one at the strictly smallest
\* distance, the first on ties, and none only when no candidate is within
\* its cap.
C11_ClosestWithinCap ==
    SearchRan => result = Closest(Val(call.d), Val(call.wrong_name))

\* the candidates without the entries equal to wrong_name
WithoutExactName(c) ==
    IF c.d = None \/ c.wrong_name = None THEN c
    ELSE [c EXCEPT !.d = Some(SelectSeq(Val(c.d),
                                 LAMBDA name : name # Val(c.wrong_name)))]

\* C12 as claimed: the suggestion is never wrong_name, and the entries
\* equal to wrong_name among the candidates do not change which other
\* candidate is returned.
C12_ExactNameNeverSuggested ==
    SuggestDone =>
        /\ result # call.wrong_name \/ result = None
        /\ result = compute_suggestion_error(WithoutExactName(call))

\* C12 as amended: the suggestion is never wrong_name, and as long as the
\* candidates, the entries equal to wrong_name counted, are at most 750,
\* those entries do not change which other candidate is returned.
C12_ExactNameNeverSuggestedUpTo750 ==
    SuggestDone =>
        /\ result # call.wrong_name \/ result = None
        /\ (call.d # None /\ Len(Val(call.d)) <= 750)
              => result = compute_suggestion_error(WithoutExactName(call))

\* wrong_name is twice among the candidates and another name is suggested
C12_Witness ==
    /\ SuggestDone
    /\ call.wrong_name = Some(<<"a", "a">>)
    /\ call.d = Some(<< <<"a", "a">>, <<"A", "a">>, <<"a", "a">> >>)
    /\ result = Some(<<"A", "a">>)

\* more than 750 candidates or a wrong_name of more than 40 characters
OverLimits ==
    /\ SuggestDone
    /\ call.wrong_name # None
    /\ call.d # None
    /\ (Len(Val(call.d)) > 750 \/ Len(Val(call.wrong_name)) > 40)

\* C13 as claimed: with more than 750 candidates or a wrong_name of more
\* than 40 characters there is no suggestion, however close a candidate is.
C13_NoSuggestionOverLimits ==
    OverLimits => result = None

\* C13 as amended: with more than 750 candidates or a wrong_name of more
\* than 40 characters no candidate is suggested; the only suggestion then
\* made is "self." + wrong_name, for a NameError with a traceback whose
\* last frame has a local 'self' with an attribute wrong_name.
C13_NoCandidateOverLimits ==
    OverLimits =>
        IF call.kind = "NameError" /\ call.tb /\ call.self_attr
        THEN result = Some(<<"s", "e", "l", "f", ".">> \o Val(call.wrong_name))
        ELSE result = None

\* a wrong_name of 41 characters and a candidate one case change away
C13_Witness ==
    /\ OverLimits
    /\ call.kind = "AttributeError"
    /\ Len(Val(call.wrong_name)) = 41
    /\ Len(Val(call.d)) = 1
    /\ WeightedDistance(Val(call.wrong_name), Val(call.d)[1]) = 1
    /\ result = None

----------------------------------------------------------------------------
(* TracebackException._format_syntax_error.  A text is a sequence of       *)
(* characters; a line of the output is a record with the kind of the line  *)
(* and, for the echoed text and the caret line, its characters.            *)

\* str.isspace for the characters of the model
isspace(c) == c \in {" ", "\t", "\n", "\f"}

\* text.rstrip('\n')
RECURSIVE rstrip_newline(_)
rstrip_newline(text) ==
    IF text # <<>> /\ text[Len(text)] = "\n"
    THEN rstrip_newline(SubSeq(text, 1, Len(text) - 1))
    ELSE text

\* rtext.lstrip(' \n\f')
RECURSIVE lstrip_blank(_)
lstrip_blank(rtext) ==
    IF rtext # <<>> /\ Head(rtext) \in {" ", "\n", "\f"}
    THEN lstrip_blank(Tail(rtext))
    ELSE rtext

Repeat(c, n) == [i \in 1..n |-> c]

\* 'if offset == end_offset or end_offset == -1'
NoWidth(offset, end_offset) == offset = end_offset \/ end_offset = -1

\* the caret line, or nothing when colno < 0
CaretLine(ltext, spaces, offset0, end_offset0) ==
    LET offset == offset0
        end_offset1 == IF end_offset0 \notin {None, Some(0)}
                       THEN Val(end_offset0) ELSE offset
        end_offset == IF NoWidth(offset, end_offset1)
                      THEN offset + 1 ELSE end_offset1
        colno == offset - 1 - spaces
        end_colno == end_offset - 1 - spaces
        prefix == SubSeq(ltext, 1, Min(colno, Len(ltext)))
        caretspace == [i \in 1..Len(prefix) |->
                          IF isspace(prefix[i]) THEN prefix[i] ELSE " "]
    IN  IF colno >= 0
        THEN << [t |-> "caret",
                 s |-> Repeat(" ", 4) \o caretspace
                         \o Repeat("^", IF end_colno - colno > 0
                                        THEN end_colno - colno ELSE 0)
                         \o <<"\n">>] >>
        ELSE <<>>

format_syntax_error(e, stype) ==
    LET filename_suffix ==
            IF e.lineno = None /\ e.filename # None THEN e.filename ELSE None
        file_line ==
            IF e.lineno # None
            THEN << [t |-> "file",
                     filename |-> IF e.filename # None THEN Val(e.filename)
                                  ELSE "<string>",
                     lineno |-> Val(e.lineno)] >>
            ELSE <<>>
        rtext == rstrip_newline(Val(e.text))
        ltext == lstrip_blank(rtext)
        spaces == Len(rtext) - Len(ltext)
        text_lines ==
            IF e.text # None
            THEN << [t |-> "text", s |-> Repeat(" ", 4) \o ltext \o <<"\n">>] >>
                 \o (IF e.offset # None
                     THEN CaretLine(ltext, spaces, Val(e.offset), e.end_offset)
                     ELSE <<>>)
            ELSE <<>>
        msg == IF e.msg # None THEN Val(e.msg) ELSE "<no detail available>"
    IN  file_line \o text_lines
          \o << [t |-> "msg", stype |-> stype, msg |-> msg,
                 filename_suffix |-> filename_suffix] >>

----------------------------------------------------------------------------
(* Specification of _format_syntax_error                                   *)

MaxTextLen == 3      \* longest text, its final newline not counted
MaxOffset == 4       \* largest offset and end_offset

TextChars == {" ", "\t", "x"}

Texts ==
    LET body == SeqsUpTo(TextChars, MaxTextLen)
    IN  {None} \cup { Some(b) : b \in body } \cup { Some(b \o <<"\n">>) : b \in body }

InitSyntax ==
    /\ pc = "start"
    /\ op = "none"
    /\ extracted_list = <<>>
    /\ tb = <<>>
    /\ limit = None
    /\ tracebacklimit = None
    /\ result = <<>>
    /\ raised = NoError
    /\ local = None
    /\ heap = None
    /\ ExcIdle
    /\ \E text \in Texts,
          offset \in {None} \cup { Some(n) : n \in 0..MaxOffset },
          end_offset \in {None} \cup { Some(n) : n \in -1..MaxOffset },
          lineno \in {None, Some("1")},
          filename \in {None, Some("f.py")},
          msg \in {None, Some("invalid syntax")} :
         call = [text |-> text, offset |-> offset, end_offset |-> end_offset,
                 lineno |-> lineno, filename |-> filename, msg |-> msg]

FormatSyntaxError ==
    /\ pc = "start"
    /\ pc' = "done"
    /\ op' = "_format_syntax_error"
    /\ result' = format_syntax_error(call, "SyntaxError")
    /\ UNCHANGED <<stackVars, raised, excVars, call, local, heap>>

NextSyntax == FormatSyntaxError

SpecSyntax == InitSyntax /\ [][NextSyntax]_vars

SyntaxDone == pc = "done" /\ op = "_format_syntax_error"

\* the places of the caret lines among the lines put out
CaretLines == { i \in 1..Len(result) : result[i].t = "caret" }

\* the places of the carets in a line
Carets(s) == { k \in 1..Len(s) : s[k] = "^" }

\* the number of characters stripped from the left of the echoed text
Stripped(text) == Len(rstrip_newline(text)) - Len(lstrip_blank(rstrip_newline(text)))

\* C14: with text and a 1-based offset that points at a character after
\* the stripped leading whitespace, the first caret of the caret line is in
\* the column of the offset-th character of text as echoed on the line
\* above, and before it the caret line repeats the whitespace of the echoed
\* line and has a space for every other character.
C14_CaretColumn ==
    (/\ SyntaxDone
     /\ call.text # None /\ call.offset # None
     /\ Val(call.offset) > Stripped(Val(call.text))
     /\ Val(call.offset) <= Len(Val(call.text)))
        => \E i \in CaretLines :
             LET caret == result[i].s
                 echo == result[i - 1].s
             IN  /\ result[i - 1].t = "text"
                 /\ Carets(caret) # {}
                 /\ \E p \in Carets(caret) :
                      /\ \A q \in Carets(caret) : p <= q
                      /\ p <= Len(echo)
                      /\ echo[p] = Val(call.text)[Val(call.offset)]
                      /\ p = 4 + Val(call.offset) - Stripped(Val(call.text))
                      /\ \A k \in 1..(p - 1) :
                           caret[k] = IF isspace(echo[k]) THEN echo[k] ELSE " "

\* C15: a caret line that is put out has at least one caret, whatever
\* offset and end_offset are, and exactly end_offset - offset carets when
\* end_offset > offset.
C15_CaretWidth ==
    SyntaxDone =>
        \A i \in CaretLines :
            /\ Carets(result[i].s) # {}
            /\ (call.end_offset # None /\ Val(call.end_offset) > Val(call.offset))
                  => Cardinality(Carets(result[i].s))
                        = Val(call.end_offset) - Val(call.offset)

----------------------------------------------------------------------------
(* _byte_offset_to_character_offset.  A line is a sequence of characters,  *)
(* a character is known by its code point, and a byte of its UTF-8         *)
(* encoding by the character and the place of the byte in the encoding.    *)

LineChars == {"a", "b", "U+00E9", "U+20AC", "U+1F600"}

\* the number of bytes of the UTF-8 encoding of a character
Utf8Width(c) ==
    CASE c \in {"a", "b"} -> 1
      [] c = "U+00E9" -> 2
      [] c = "U+20AC" -> 3
      [] c = "U+1F600" -> 4
      [] OTHER -> 1

\* str.encode('utf-8')
encode_utf8(line) ==
    Flatten([i \in 1..Len(line) |->
                [k \in 1..Utf8Width(line[i]) |-> [char |-> line[i], byte |-> k]]])

\* as_utf8[:offset], offset >= 0
SliceInclusive(bytes, offset) == SubSeq(bytes, 1, Min(offset + 1, Len(bytes)))

SliceWhole(bytes, offset) == bytes

Slice(bytes, offset) == SubSeq(bytes, 1, Min(offset, Len(bytes)))

\* bytes.decode("utf-8", errors="replace") of the start of an encoding: a
\* whole character is decoded, the bytes of a character cut short at the
\* end become one U+FFFD
RECURSIVE decode_utf8_replace(_)
decode_utf8_replace(bytes) ==
    IF bytes = <<>> THEN <<>>
    ELSE LET width == Utf8Width(bytes[1].char)
         IN  IF Len(bytes) >= width
             THEN <<bytes[1].char>>
                    \o decode_utf8_replace(SubSeq(bytes, width + 1, Len(bytes)))
             ELSE <<"U+FFFD">>

byte_offset_to_character_offset(str, offset) ==
    LET as_utf8 == encode_utf8(str)
    IN  Len(decode_utf8_replace(Slice(as_utf8, offset)))

----------------------------------------------------------------------------
(* Specification of _byte_offset_to_character_offset                       *)

MaxLineLen == 3      \* longest line, in characters
MaxByteOffset == 13  \* largest offset

InitOffset ==
    /\ pc = "start"
    /\ op = "none"
    /\ extracted_list = <<>>
    /\ tb = <<>>
    /\ limit = None
    /\ tracebacklimit = None
    /\ result = <<>>
    /\ raised = NoError
    /\ local = None
    /\ heap = None
    /\ ExcIdle
    /\ \E str \in SeqsUpTo(LineChars, MaxLineLen), offset \in 0..MaxByteOffset :
         call = [str |-> str, offset |-> offset]

ByteOffsetToCharacterOffset ==
    /\ pc = "start"
    /\ pc' = "done"
    /\ op' = "_byte_offset_to_character_offset"
    /\ result' = byte_offset_to_character_offset(call.str, call.offset)
    /\ UNCHANGED <<stackVars, raised, excVars, call, local, heap>>

NextOffset == ByteOffsetToCharacterOffset

SpecOffset == InitOffset /\ [][NextOffset]_vars

OffsetDone == pc = "done" /\ op = "_byte_offset_to_character_offset"

PureAscii(str) == \A i \in 1..Len(str) : str[i] \in {"a", "b"}

\* C16 as claimed: on a pure-ASCII line the result equals the offset, for
\* every offset >= 0.
C16_AsciiIdentity ==
    (OffsetDone /\ PureAscii(call.str)) => result = call.offset

\* C16 as amended: on a pure-ASCII line the result equals the offset for
\* every offset from 0 to the length of the line, and is the length of the
\* line for every larger offset.
C16_AsciiIdentityWithinLine ==
    (OffsetDone /\ PureAscii(call.str)) =>
        result = IF call.offset <= Len(call.str) THEN call.offset
                 ELSE Len(call.str)

\* an offset inside a pure-ASCII line of three characters
C16_Witness ==
    /\ OffsetDone
    /\ call.str = <<"a", "b", "a">>
    /\ call.offset = 2
    /\ result = 2

\* C17: for every line and every offset >= 0 the result r has
\* 0 <= r <= offset.
C17_WithinOffset ==
    OffsetDone => (0 <= result /\ result <= call.offset)

\* an offset that falls inside the second character, which has three bytes
C17_Witness ==
    /\ OffsetDone
    /\ call.str = <<"U+00E9", "U+20AC", "a">>
    /\ call.offset = 4
    /\ result = 2

----------------------------------------------------------------------------
(* print_exception and format_exception: _parse_value_tb, then the         *)
(* construction of TracebackException(type(value), value, tb, limit=limit, *)
(* compact=True), then te.print or list(te.format(chain=chain)).  The      *)
(* value None is the entry "None" of excs: as `e and ...` is false and     *)
(* its attributes are read with defaults, it has no link, note or frame.   *)

sentinel == <<"<implicit>", "<implicit>">>

NotAnException == "not an exception"

\* isinstance(exc, BaseException)
IsException(x) == x \in DOMAIN excs /\ x # "None"

\* '(value is _sentinel) != (tb is _sentinel)'
OnlyValueMissing(value, tb_) == value = sentinel /\ tb_ # sentinel

ExactlyOneGiven(value, tb_) == (value = sentinel) # (tb_ = sentinel)

\* what _parse_value_tb returns or raises; a traceback is its frames
parse_value_tb(exc, value, tb_) ==
    IF ExactlyOneGiven(value, tb_)
    THEN [raised |-> "ValueError", value |-> None, tb |-> None]
    ELSE IF value = sentinel /\ tb_ = sentinel
    THEN IF exc # None
         THEN IF IsException(Val(exc))
              THEN [raised |-> NoError, value |-> exc,
                    tb |-> IF excs[Val(exc)].tb = <<>> THEN None
                           ELSE Some(excs[Val(exc)].tb)]
              ELSE [raised |-> "TypeError", value |-> None, tb |-> None]
         ELSE [raised |-> NoError, value |-> None, tb |-> None]
    ELSE [raised |-> NoError, value |-> value, tb |-> tb_]

\* 'value, tb = _parse_value_tb(exc, value, tb)'
ParseValueTb ==
    /\ pc = "call"
    /\ LET r == parse_value_tb(call.exc, call.value, call.tb)
       IN  /\ raised' = r.raised
           /\ pc' = IF r.raised = NoError THEN "parsed" ELSE "failed"
           /\ call' = [call EXCEPT !.parsed =
                          IF r.raised = NoError
                          THEN Some([value |-> r.value, tb |-> r.tb])
                          ELSE None]
    /\ op' = call.fn
    /\ UNCHANGED <<stackVars, result, excVars, local, heap>>

\* 'te = TracebackException(type(value), value, tb, limit=limit,
\* compact=True)' up to the work list
ConstructValue ==
    /\ pc = "parsed"
    /\ pc' = "building"
    /\ LET p == Val(call.parsed)
           e == IF p.value = None THEN "None" ELSE Val(p.value)
           frames == IF p.tb \in {None, sentinel} THEN <<>> ELSE Val(p.tb)
       IN  /\ nodes' = << [NewNode(e) EXCEPT !.stack = extract_tb(frames, limit, None)] >>
           /\ seen' = {e}
           /\ queue' = <<1>>
    /\ UNCHANGED <<op, stackVars, result, raised, argVars, fmtVars, call, local, heap>>

----------------------------------------------------------------------------
(* Specification of print_exception and format_exception                   *)

EntryExcs == {"E1", "E2", "None"}

InitEntry ==
    /\ pc = "call"
    /\ op = "none"
    /\ extracted_list = <<>>
    /\ tb = <<>>
    /\ limit = None
    /\ tracebacklimit = None
    /\ result = <<>>
    /\ raised = NoError
    /\ local = None
    /\ heap = None
    /\ \E exc \in {None, Some("E1"), Some(NotAnException)},
          value \in {sentinel, None, Some("E1")},
          tb_ \in {sentinel, None, Some(<<3>>), Some(<<3, 4, 5>>)},
          fn \in {"print_exception", "format_exception"} :
         call = [fn |-> fn, exc |-> exc, value |-> value, tb |-> tb_,
                 parsed |-> None]
    /\ \E cause \in {None, Some("E1"), Some("E2")},
          context \in {None, Some("E2")},
          suppress_context \in BOOLEAN,
          notes \in {None, Some([is_seq |-> TRUE, notes |-> <<1>>])} :
         excs = [e \in EntryExcs |->
                    [cause |-> IF e = "E1" THEN cause ELSE None,
                     context |-> IF e = "E1" THEN context ELSE None,
                     suppress_context |-> e = "E1" /\ context # None /\ suppress_context,
                     exceptions |-> None,
                     notes |-> IF e = "E1" THEN notes ELSE None,
                     tb |-> IF e = "None" THEN <<>> ELSE TbOf(e)]]
    /\ compact = TRUE
    /\ max_group_width = Some(DEFAULT_MAX_GROUP_WIDTH)
    /\ max_group_depth = Some(DEFAULT_MAX_GROUP_DEPTH)
    /\ nodes = <<>>
    /\ queue = <<>>
    /\ seen = {}
    /\ chain = FALSE
    /\ show_group = FALSE
    /\ ctx = None

NextEntry == ParseValueTb \/ ConstructValue \/ QueueStep \/ Format

SpecEntry == InitEntry /\ [][NextEntry]_vars

\* exactly one of value and tb was supplied
OneOfValueAndTb == (call.value = sentinel) # (call.tb = sentinel)

\* C18: with exactly one of value and tb supplied the call fails with an
\* error before any TracebackException is constructed and before anything
\* is put out; with both or neither supplied that error is not raised.
C18_RejectedBeforeBuilding ==
    /\ (pc # "call" /\ OneOfValueAndTb) =>
          /\ pc = "failed"
          /\ raised = "ValueError"
          /\ nodes = <<>> /\ queue = <<>> /\ seen = {}
          /\ result = <<>>
    /\ ~OneOfValueAndTb => raised # "ValueError"

\* a value given without tb has been rejected and nothing was built
C18_Witness ==
    /\ pc = "failed"
    /\ raised = "ValueError"
    /\ call.value = Some("E1")
    /\ call.tb = sentinel
    /\ nodes = <<>>

----------------------------------------------------------------------------
(* Specification of construction from failures that are linked in cycles   *)
(* through groups: three failures in the order they were created, each a   *)
(* group of earlier ones or not a group (a group is made from failures     *)
(* that exist), with any cause and context set afterwards.                 *)

CycleExcs == <<"E1", "E2", "E3">>

Earlier(i) == { CycleExcs[j] : j \in 1..(i - 1) }

\* None (not a group) or the members of a group
MembersOf(i) ==
    {None} \cup { Some(SelectSeq(CycleExcs, LAMBDA x : InSet(M, x))) :
                    M \in (SUBSET Earlier(i)) \ {{}} }

InitCycle ==
    /\ pc = "start"
    /\ op = "none"
    /\ extracted_list = <<>>
    /\ tb = <<>>
    /\ limit = None
    /\ tracebacklimit = None
    /\ result = <<>>
    /\ raised = NoError
    /\ local = None
    /\ heap = None
    /\ call = None
    /\ \E cause \in [ChainExcs -> Opt(ChainExcs)],
          context \in [ChainExcs -> Opt(ChainExcs)],
          m2 \in MembersOf(2), m3 \in MembersOf(3) :
         excs = [e \in ChainExcs |->
                    [cause |-> cause[e],
                     context |-> context[e],
                     suppress_context |-> FALSE,
                     exceptions |-> IF e = "E2" THEN m2
                                    ELSE IF e = "E3" THEN m3 ELSE None,
                     notes |-> None,
                     tb |-> TbOf(e)]]
    /\ compact = FALSE
    /\ max_group_width = Some(DEFAULT_MAX_GROUP_WIDTH)
    /\ max_group_depth = Some(DEFAULT_MAX_GROUP_DEPTH)
    /\ nodes = <<>>
    /\ queue = <<>>
    /\ seen = {}
    /\ chain = FALSE
    /\ show_group = FALSE
    /\ ctx = None

SpecCycle == InitCycle /\ [][NextBuild]_vars

\* the nodes a node refers to as cause, context or sub-failure
Children(p) ==
    (IF nodes[p].cause # None THEN {Val(nodes[p].cause)} ELSE {})
      \cup (IF nodes[p].context # None THEN {Val(nodes[p].context)} ELSE {})
      \cup (IF nodes[p].exceptions # None
            THEN { Val(nodes[p].exceptions)[k] :
                     k \in 1..Len(Val(nodes[p].exceptions)) }
            ELSE {})

ParentOf(n) == CHOOSE p \in 1..Len(nodes) : n \in Children(p)

\* the nodes on the path from the root to n, n left out
RECURSIVE Ancestors(_)
Ancestors(n) == IF n = 1 THEN {} ELSE {ParentOf(n)} \cup Ancestors(ParentOf(n))

\* C19: in a tree built by one top-level construction no node is built
\* from the same failure as one of its ancestors, following cause, context
\* and sub-failure links.
C19_NoAncestorTwice ==
    \A n \in 1..Len(nodes) :
        \A a \in Ancestors(n) : nodes[a].exc # nodes[n].exc

----------------------------------------------------------------------------
(* FrameSummary objects with their lazily resolved source line.  The text  *)
(* of the source files is an input: linecache.getline gives the line with  *)
(* its newline, or the empty string when the file or the line is missing.  *)

Newline == "\n"

SourceFiles ==
    [f \in {"a.py", "b.py"} |->
        IF f = "a.py"
        THEN << <<" ", " ", "f", "(", Newline>>,
                <<" ", " ", " ", "1", ")", " ", Newline>> >>
        ELSE << <<"x", "[", Newline>>,
                <<" ", "0", "]", Newline>> >>]

\* linecache.getline(filename, lineno)
getline(filename, lineno) ==
    IF filename \in DOMAIN SourceFiles /\ lineno \in 1..Len(SourceFiles[filename])
    THEN SourceFiles[filename][lineno]
    ELSE <<>>

\* str.rstrip()
RECURSIVE rstrip(_)
rstrip(s) ==
    IF s # <<>> /\ isspace(s[Len(s)]) THEN rstrip(SubSeq(s, 1, Len(s) - 1)) ELSE s

\* str.split("\n")
RECURSIVE split_lines(_, _)
split_lines(s, cur) ==
    IF s = <<>> THEN <<cur>>
    ELSE IF Head(s) = Newline THEN <<cur>> \o split_lines(Tail(s), <<>>)
    ELSE split_lines(Tail(s), Append(cur, Head(s)))

\* "\n".join(lines)
RECURSIVE join_lines(_)
join_lines(lines) ==
    IF lines = <<>> THEN <<>>
    ELSE IF Len(lines) = 1 THEN lines[1]
    ELSE lines[1] \o <<Newline>> \o join_lines(Tail(lines))

\* the leading blanks of a line
RECURSIVE LeadingBlanks(_)
LeadingBlanks(s) ==
    IF s # <<>> /\ Head(s) \in {" ", "\t"}
    THEN <<Head(s)>> \o LeadingBlanks(Tail(s))
    ELSE <<>>

RECURSIVE CommonLead(_, _)
CommonLead(a, b) ==
    IF a # <<>> /\ b # <<>> /\ Head(a) = Head(b)
    THEN <<Head(a)>> \o CommonLead(Tail(a), Tail(b))
    ELSE <<>>

RECURSIVE Margin(_, _)
Margin(lines, m) ==
    IF lines = <<>> THEN m
    ELSE IF LeadingBlanks(Head(lines)) = Head(lines) THEN Margin(Tail(lines), m)
    ELSE Margin(Tail(lines),
                IF m = None THEN Some(LeadingBlanks(Head(lines)))
                ELSE Some(CommonLead(Val(m), LeadingBlanks(Head(lines)))))

\* textwrap.dedent(text): lines of spaces and tabs only become empty, the
\* other lines lose the leading spaces and tabs they all share
dedent(text) ==
    LET lines == split_lines(text, <<>>)
        m == Margin(lines, None)
        n == IF m = None THEN 0 ELSE Len(Val(m))
    IN  join_lines([i \in 1..Len(lines) |->
                       IF LeadingBlanks(lines[i]) = lines[i] THEN <<>>
                       ELSE SubSeq(lines[i], n + 1, Len(lines[i]))])

\* the getline calls of one evaluation of FrameSummary.line
LineCalls(self) ==
    IF self._line = None /\ self.lineno # None
    THEN LET end_lineno == IF self.end_lineno = None THEN Val(self.lineno)
                           ELSE Val(self.end_lineno)
         IN  [k \in 1..(end_lineno - Val(self.lineno) + 1) |->
                 [fn |-> "getline", filename |-> self.filename,
                  lineno |-> Val(self.lineno) + k - 1]]
    ELSE <<>>

RECURSIVE ReadLines(_, _, _)
ReadLines(filename, lineno, end_lineno) ==
    IF lineno > end_lineno THEN <<>>
    ELSE rstrip(getline(filename, lineno)) \o <<Newline>>
            \o ReadLines(filename, lineno + 1, end_lineno)

\* FrameSummary.line run by one reader from start to end: the object after
\* the read and the value returned
line(self) ==
    LET resolved ==
            IF self._line = None /\ self.lineno # None
            THEN [self EXCEPT !._line =
                     Some(ReadLines(self.filename, Val(self.lineno),
                              IF self.end_lineno = None THEN Val(self.lineno)
                              ELSE Val(self.end_lineno)))]
            ELSE self
        after ==
            IF self._line = None /\ self.lineno = None THEN self
            ELSE IF resolved._line_dedented = None /\ resolved._line # None
            THEN [resolved EXCEPT
                     !._line_dedented = Some(rstrip(dedent(Val(resolved._line))))]
            ELSE resolved
    IN  [self |-> after,
         value |-> IF self._line = None /\ self.lineno = None THEN None
                   ELSE after._line_dedented]

\* FrameSummary.__init__ without a given line: with lookup_line the line is
\* read while end_lineno is not yet an attribute of the object
FrameSummaryInit(filename, lineno, end_lineno, lookup_line) ==
    LET self == [filename |-> filename, lineno |-> lineno,
                 end_lineno |-> end_lineno,
                 _line |-> None, _line_dedented |-> None]
    IN  IF lookup_line /\ lineno # None
        THEN [raised |-> "AttributeError", self |-> self, calls |-> <<>>]
        ELSE [raised |-> NoError, self |-> self, calls |-> <<>>]

----------------------------------------------------------------------------
(* Specification of _extract_from_extended_frame_gen, one loop iteration   *)
(* at a time.  tb is the frame generator, a frame being its file and line  *)
(* span; heap.linecache lists the calls made to linecache, in order.       *)

MaxFrames == 3       \* longest frame generator of the step-wise extraction

FrameChoices ==
    { [filename |-> "a.py", lineno |-> Some(1), end_lineno |-> None],
      [filename |-> "a.py", lineno |-> Some(1), end_lineno |-> Some(2)],
      [filename |-> "b.py", lineno |-> Some(2), end_lineno |-> Some(2)],
      [filename |-> "b.py", lineno |-> None, end_lineno |-> None],
      [filename |-> "c.py", lineno |-> Some(1), end_lineno |-> None] }

InitLookup ==
    /\ pc = "start"
    /\ op = "none"
    /\ extracted_list = <<>>
    /\ tb \in SeqsUpTo(FrameChoices, MaxFrames)
    /\ limit \in {None, Some(2), Some(-1)}
    /\ tracebacklimit = None
    /\ result = <<>>
    /\ raised = NoError
    /\ local = None
    /\ heap = [linecache |-> <<>>]
    /\ \E lookup_lines \in BOOLEAN : call = [lookup_lines |-> lookup_lines]
    /\ ExcIdle

\* 'fnames.add(filename)' keeps one entry per file
FnamesAddFirstOnly(fnames, filename) ==
    IF fnames = {} THEN {filename} ELSE fnames

FnamesAdd(fnames, filename) == fnames \cup {filename}

\* the limit policy, then 'result = klass(); fnames = set()'
ExtractBegin ==
    /\ pc = "start"
    /\ pc' = "collect"
    /\ op' = "_extract_from_extended_frame_gen"
    /\ local' = [frame_gen |-> ApplyLimit(tb, EffectiveLimit(limit, tracebacklimit)),
                 fnames |-> {}, todo |-> {}, i |-> 1]
    /\ result' = <<>>
    /\ UNCHANGED <<stackVars, raised, excVars, call, heap>>

\* one iteration of 'for f, (lineno, ...) in frame_gen'
CollectFrame ==
    /\ pc = "collect"
    /\ local.frame_gen # <<>>
    /\ LET f == Head(local.frame_gen)
           made == FrameSummaryInit(f.filename, f.lineno, f.end_lineno, FALSE)
       IN  /\ local' = [local EXCEPT !.frame_gen = Tail(@),
                                     !.fnames = FnamesAdd(@, f.filename)]
           /\ heap' = [heap EXCEPT !.linecache =
                          Append(@, [fn |-> "lazycache", filename |-> f.filename,
                                     lineno |-> 0]) \o made.calls]
           /\ raised' = made.raised
           /\ pc' = IF made.raised = NoError THEN "collect" ELSE "failed"
           /\ result' = IF made.raised = NoError THEN Append(result, made.self)
                        ELSE result
    /\ UNCHANGED <<op, stackVars, excVars, call>>

\* frame_gen is exhausted: 'for filename in fnames' starts
CollectEnd ==
    /\ pc = "collect"
    /\ local.frame_gen = <<>>
    /\ pc' = "checkcache"
    /\ local' = [local EXCEPT !.todo = local.fnames]
    /\ UNCHANGED <<op, stackVars, result, raised, excVars, call, heap>>

\* one iteration of 'for filename in fnames', a set, in any order
CheckCache ==
    /\ pc = "checkcache"
    /\ \E filename \in local.todo :
          /\ local' = [local EXCEPT !.todo = @ \ {filename}]
          /\ heap' = [heap EXCEPT !.linecache =
                         Append(@, [fn |-> "checkcache", filename |-> filename,
                                    lineno |-> 0])]
    /\ UNCHANGED <<pc, op, stackVars, result, raised, excVars, call>>

\* 'if lookup_lines:' after the last file
CheckCacheEnd ==
    /\ pc = "checkcache"
    /\ local.todo = {}
    /\ pc' = IF call.lookup_lines THEN "lookup" ELSE "done"
    /\ UNCHANGED <<op, stackVars, result, raised, excVars, call, local, heap>>

\* one iteration of 'for f in result: f.line'
LookupLine ==
    /\ pc = "lookup"
    /\ local.i <= Len(result)
    /\ LET f == result[local.i]
       IN  /\ result' = [result EXCEPT ![local.i] = line(f).self]
           /\ heap' = [heap EXCEPT !.linecache = @ \o LineCalls(f)]
    /\ local' = [local EXCEPT !.i = @ + 1]
    /\ UNCHANGED <<pc, op, stackVars, raised, excVars, call>>

\* 'return result'
LookupEnd ==
    /\ pc = "lookup"
    /\ local.i > Len(result)
    /\ pc' = "done"
    /\ UNCHANGED <<op, stackVars, result, raised, excVars, call, local, heap>>

NextLookup ==
    \/ ExtractBegin
    \/ CollectFrame
    \/ CollectEnd
    \/ CheckCache
    \/ CheckCacheEnd
    \/ LookupLine
    \/ LookupEnd

SpecLookup == InitLookup /\ [][NextLookup]_vars

----------------------------------------------------------------------------
(* Claims about the order of the calls to linecache                        *)

Calls(fn) ==
    { k \in 1..Len(heap.linecache) : heap.linecache[k].fn = fn }

Collected == ApplyLimit(tb, EffectiveLimit(limit, tracebacklimit))

CollectedFiles == { Collected[k].filename : k \in 1..Len(Collected) }

Extracting ==
    op = "_extract_from_extended_frame_gen" /\ heap # None /\ local # None

\* C21: during extraction the cache refresh is invoked at most once per file
\* and, once the refresh loop is over, exactly once for each distinct file of
\* the collected frames and for no other file; every refresh comes after the
\* last frame was collected and before the first source line is read; with
\* lookup_lines false no source line is read during the extraction.
C21_RefreshBetweenCollectAndLookup ==
    Extracting =>
        /\ \A j, k \in Calls("checkcache") :
              heap.linecache[j].filename = heap.linecache[k].filename => j = k
        /\ pc \in {"lookup", "done"} =>
              { heap.linecache[k].filename : k \in Calls("checkcache") }
                  = CollectedFiles
        /\ Calls("checkcache") # {} =>
              /\ Len(result) = Len(Collected)
              /\ Cardinality(Calls("lazycache")) = Len(Collected)
        /\ \A k \in Calls("checkcache") :
              /\ \A j \in Calls("lazycache") : j < k
              /\ \A j \in Calls("getline") : k < j
        /\ Calls("getline") # {} => pc \in {"lookup", "done"}
        /\ ~call.lookup_lines =>
              /\ Calls("getline") = {}
              /\ \A k \in 1..Len(result) : result[k]._line = None

\* an extraction with immediate lookup is over: two distinct files were
\* refreshed, one of them has two frames, and source lines were read
C21_Witness ==
    /\ Extracting
    /\ pc = "done"
    /\ call.lookup_lines
    /\ Cardinality(Calls("checkcache")) = 2
    /\ Len(result) = 3
    /\ Calls("getline") # {}
    /\ \E k \in 1..Len(result) : result[k]._line_dedented # None

----------------------------------------------------------------------------
(* _extract_caret_anchors_from_line_segment.  The parser is outside the    *)
(* module: ast_parse lists, for each segment the model hands to it, what   *)
(* ast.parse("(\n" + segment + "\n)") answers: a SyntaxError, or the node  *)
(* of the single statement with the positions the code reads (lines are    *)
(* counted from 1, the added bracket being line 1; columns are in bytes).  *)

ast_parse(segment) ==
    CASE 
         segment = <<"a", " ", "+", " ", "b">> ->   \* 'a + b'
           [node |-> "BinOp", body |-> 1,
             left |-> [end_lineno |-> 2, end_col_offset |-> 1],
             right |-> [lineno |-> 2, col_offset |-> 4]]
      [] segment = <<"a", " ", "*", "*", " ", "b">> ->   \* 'a ** b'
           [node |-> "BinOp", body |-> 1,
             left |-> [end_lineno |-> 2, end_col_offset |-> 1],
             right |-> [lineno |-> 2, col_offset |-> 5]]
      [] segment = <<"(", "a", ")", " ", "+", " ", "b">> ->   \* '(a) + b'
           [node |-> "BinOp", body |-> 1,
             left |-> [end_lineno |-> 2, end_col_offset |-> 2],
             right |-> [lineno |-> 2, col_offset |-> 6]]
      [] segment = <<"U+00E9", " ", "+", " ", "b">> ->   \* 'U+00E9 + b'
           [node |-> "BinOp", body |-> 1,
             left |-> [end_lineno |-> 2, end_col_offset |-> 2],
             right |-> [lineno |-> 2, col_offset |-> 5]]
      [] segment = <<"a", "[", "b", "]">> ->   \* 'a[b]'
           [node |-> "Subscript", body |-> 1,
             value |-> [end_lineno |-> 2, end_col_offset |-> 1],
             end_lineno |-> 2, end_col_offset |-> 4]
      [] segment = <<"f", "(", "x", ")">> ->   \* 'f(x)'
           [node |-> "Call", body |-> 1,
             func |-> [end_lineno |-> 2, end_col_offset |-> 1],
             end_lineno |-> 2, end_col_offset |-> 4]
      [] segment = <<"a">> ->   \* 'a'
           [node |-> "Name", body |-> 1]
      [] segment = <<"a", " ", "=", " ", "b">> ->   \* 'a = b'
           [node |-> "SyntaxError"]
      [] segment = <<")", "(", "a">> ->   \* ')(a'
           [node |-> "Call", body |-> 1,
             func |-> [end_lineno |-> 2, end_col_offset |-> 1],
             end_lineno |-> 3, end_col_offset |-> 1]
      [] segment = <<"f", "(", "a", ",", "\n", " ", " ", "b", ")">> ->   \* 'f(a,\n  b)'
           [node |-> "Call", body |-> 1,
             func |-> [end_lineno |-> 2, end_col_offset |-> 1],
             end_lineno |-> 3, end_col_offset |-> 4]
      [] segment = <<"(", "a", " ", "+", "\n", " ", "b", ")">> ->   \* '(a +\n b)'
           [node |-> "BinOp", body |-> 1,
             left |-> [end_lineno |-> 2, end_col_offset |-> 2],
             right |-> [lineno |-> 3, col_offset |-> 1]]
      [] segment = <<"x", "[", "\n", " ", "0", "]">> ->   \* 'x[\n 0]'
           [node |-> "Subscript", body |-> 1,
             value |-> [end_lineno |-> 2, end_col_offset |-> 1],
             end_lineno |-> 3, end_col_offset |-> 3]
      [] segment = <<"a", " ", "#", "\n", "+", " ", "b">> ->   \* 'a #\n+ b'
           [node |-> "BinOp", body |-> 1,
             left |-> [end_lineno |-> 2, end_col_offset |-> 1],
             right |-> [lineno |-> 3, col_offset |-> 2]]
      [] segment = <<"f", "(", "\n", " ", "a", ",", "\n", " ", "b", ")">> ->   \* 'f(\n a,\n b)'
           [node |-> "Call", body |-> 1,
             func |-> [end_lineno |-> 2, end_col_offset |-> 1],
             end_lineno |-> 4, end_col_offset |-> 3]
      [] segment = <<"[", "a", ",", "\n", " ", "b", "]">> ->   \* '[a,\n b]'
           [node |-> "List", body |-> 1]
      [] segment = <<>> ->   \* ''
           [node |-> "Tuple", body |-> 1]
      [] segment = <<"f", "(", "a", ",", "\n", " ", " ", "b", ")", " ", "\n", "#">> ->   \* 'f(a,\n  b) \n#'
           [node |-> "Call", body |-> 1,
             func |-> [end_lineno |-> 2, end_col_offset |-> 1],
             end_lineno |-> 3, end_col_offset |-> 4]
      [] segment = <<"(", "a", " ", "+", "\n", " ", "b", ")", " ", "\n", "#">> ->   \* '(a +\n b) \n#'
           [node |-> "BinOp", body |-> 1,
             left |-> [end_lineno |-> 2, end_col_offset |-> 2],
             right |-> [lineno |-> 3, col_offset |-> 1]]
      [] segment = <<"x", "[", "\n", " ", "0", "]", " ", "\n", "#">> ->   \* 'x[\n 0] \n#'
           [node |-> "Subscript", body |-> 1,
             value |-> [end_lineno |-> 2, end_col_offset |-> 1],
             end_lineno |-> 3, end_col_offset |-> 3]
      [] segment = <<"a", " ", "#", "\n", "+", " ", "b", " ", "\n", "#">> ->   \* 'a #\n+ b \n#'
           [node |-> "BinOp", body |-> 1,
             left |-> [end_lineno |-> 2, end_col_offset |-> 1],
             right |-> [lineno |-> 3, col_offset |-> 2]]
      [] segment = <<"f", "(", "\n", " ", "a", ",", "\n", " ", "b", ")", " ", "\n", "#">> ->   \* 'f(\n a,\n b) \n#'
           [node |-> "Call", body |-> 1,
             func |-> [end_lineno |-> 2, end_col_offset |-> 1],
             end_lineno |-> 4, end_col_offset |-> 3]
      [] segment = <<"[", "a", ",", "\n", " ", "b", "]", " ", "\n", "#">> ->   \* '[a,\n b] \n#'
           [node |-> "List", body |-> 1]
      [] segment = <<"f", "(", "a", ",", "\n", " ", " ", "b", ")", " ", "\n">> ->   \* 'f(a,\n  b) \n'
           [node |-> "Call", body |-> 1,
             func |-> [end_lineno |-> 2, end_col_offset |-> 1],
             end_lineno |-> 3, end_col_offset |-> 4]
      [] segment = <<"(", "a", " ", "+", "\n", " ", "b", ")", " ", "\n">> ->   \* '(a +\n b) \n'
           [node |-> "BinOp", body |-> 1,
             left |-> [end_lineno |-> 2, end_col_offset |-> 2],
             right |-> [lineno |-> 3, col_offset |-> 1]]
      [] segment = <<"x", "[", "\n", " ", "0", "]", " ", "\n">> ->   \* 'x[\n 0] \n'
           [node |-> "Subscript", body |-> 1,
             value |-> [end_lineno |-> 2, end_col_offset |-> 1],
             end_lineno |-> 3, end_col_offset |-> 3]
      [] segment = <<"a", " ", "#", "\n", "+", " ", "b", " ", "\n">> ->   \* 'a #\n+ b \n'
           [node |-> "BinOp", body |-> 1,
             left |-> [end_lineno |-> 2, end_col_offset |-> 1],
             right |-> [lineno |-> 3, col_offset |-> 2]]
      [] segment = <<"f", "(", "\n", " ", "a", ",", "\n", " ", "b", ")", " ", "\n">> ->   \* 'f(\n a,\n b) \n'
           [node |-> "Call", body |-> 1,
             func |-> [end_lineno |-> 2, end_col_offset |-> 1],
             end_lineno |-> 4, end_col_offset |-> 3]
      [] segment = <<"[", "a", ",", "\n", " ", "b", "]", " ", "\n">> ->   \* '[a,\n b] \n'
           [node |-> "List", body |-> 1]

\* a Python list index: 0-based, a negative index counts from the end;
\* the 1-based index, 0 when out of range
PyIndex(seq, i) ==
    IF i >= 0 /\ i < Len(seq) THEN i + 1
    ELSE IF i < 0 /\ -i <= Len(seq) THEN Len(seq) + i + 1
    ELSE 0

Position(lineno, col) == [raised |-> NoError, lineno |-> lineno, col |-> col]

RaiseAt(error) == [raised |-> error, lineno |-> 0, col |-> 0]

\* normalize: the character index of a byte offset in lines[lineno]
normalize(lines, lineno, offset) ==
    IF PyIndex(lines, lineno) = 0 THEN [raised |-> "IndexError", value |-> 0]
    ELSE [raised |-> NoError,
          value |-> byte_offset_to_character_offset(
                        lines[PyIndex(lines, lineno)], offset)]

\* next_valid_char: the next position that holds a character
RECURSIVE next_valid_char(_, _, _)
next_valid_char(lines, lineno, col) ==
    IF lineno < Len(lines) /\ col >= Len(lines[PyIndex(lines, lineno)])
    THEN next_valid_char(lines, lineno + 1, 0)
    ELSE IF lineno < Len(lines) /\ col < Len(lines[PyIndex(lines, lineno)])
    THEN Position(lineno, col)
    ELSE RaiseAt("AssertionError")

increment(lines, lineno, col) == next_valid_char(lines, lineno, col + 1)

nextline(lines, lineno, col) == next_valid_char(lines, lineno + 1, 0)

\* the three predicates handed to increment_until
Stop(kind, x) ==
    CASE kind = "operator" -> ~isspace(x) /\ x # ")"
      [] kind = "[" -> x = "["
      [] kind = "(" -> x = "("

\* increment_until: the next character that satisfies stop and is neither
\* a backslash nor '#'; the rest of a line is skipped after these two
RECURSIVE increment_until(_, _, _, _)
increment_until(lines, lineno, col, kind) ==
    LET ch == lines[lineno + 1][col + 1]
        next == IF ch \in {"\\", "#"} THEN nextline(lines, lineno, col)
                ELSE increment(lines, lineno, col)
    IN  IF ~Stop(kind, ch) \/ ch \in {"\\", "#"}
        THEN Bind(next, LAMBDA at :
                 IF at.raised # NoError THEN at
                 ELSE increment_until(lines, at.lineno, at.col, kind))
        ELSE Position(lineno, col)

\* setup_positions: the end of a node as (line of the segment, character)
setup_positions(lines, end_lineno, end_col_offset, force_valid) ==
    LET lineno == end_lineno - 2
    IN  Bind(normalize(lines, lineno, end_col_offset), LAMBDA col :
            IF col.raised # NoError THEN RaiseAt(col.raised)
            ELSE IF force_valid THEN next_valid_char(lines, lineno, col.value)
            ELSE Position(lineno, col.value))

Anchors(left_end_lineno, left_end_offset, right_start_lineno, right_start_offset) ==
    [raised |-> NoError,
     anchors |-> Some([left_end_lineno |-> left_end_lineno,
                       left_end_offset |-> left_end_offset,
                       right_start_lineno |-> right_start_lineno,
                       right_start_offset |-> right_start_offset,
                       primary_char |-> "~",
                       secondary_char |-> "^"])]

NoAnchors == [raised |-> NoError, anchors |-> None]

AnchorsRaise(error) == [raised |-> error, anchors |-> None]

\* the branch 'isinstance(expr, ast.BinOp)'
BinOpAnchors(lines, expr) ==
    Bind(setup_positions(lines, expr.left.end_lineno,
                         expr.left.end_col_offset, TRUE), LAMBDA left :
    Bind(IF left.raised # NoError THEN left
         ELSE increment_until(lines, left.lineno, left.col, "operator"), LAMBDA at :
    LET right_col == at.col + 1
        before_right ==
            IF expr.right.lineno - 2 > at.lineno
            THEN [raised |-> NoError, value |-> TRUE]
            ELSE Bind(normalize(lines, expr.right.lineno - 2,
                                expr.right.col_offset), LAMBDA start :
                     [raised |-> start.raised, value |-> right_col < start.value])
    IN  IF at.raised # NoError THEN AnchorsRaise(at.raised)
        ELSE IF right_col < Len(lines[at.lineno + 1])
        THEN IF before_right.raised # NoError THEN AnchorsRaise(before_right.raised)
             ELSE IF /\ before_right.value
                     /\ ~isspace(lines[at.lineno + 1][right_col + 1])
                     /\ lines[at.lineno + 1][right_col + 1] \notin {"\\", "#"}
             THEN Anchors(at.lineno, at.col, at.lineno, right_col + 1)
             ELSE Anchors(at.lineno, at.col, at.lineno, right_col)
        ELSE Anchors(at.lineno, at.col, at.lineno, right_col)))

\* the branches 'isinstance(expr, ast.Subscript)' and 'isinstance(expr,
\* ast.Call)': the bracket after the value or the function, and the end of
\* the expression
BracketAnchors(lines, inner, expr, bracket) ==
    Bind(setup_positions(lines, inner.end_lineno, inner.end_col_offset, TRUE),
         LAMBDA left :
    Bind(IF left.raised # NoError THEN left
         ELSE increment_until(lines, left.lineno, left.col, bracket), LAMBDA at :
        IF at.raised # NoError THEN AnchorsRaise(at.raised)
        ELSE Bind(setup_positions(lines, expr.end_lineno, expr.end_col_offset, FALSE),
                  LAMBDA right :
                 IF right.raised # NoError THEN AnchorsRaise(right.raised)
                 ELSE Anchors(at.lineno, at.col, right.lineno, right.col))))

extract_caret_anchors_from_line_segment(segment) ==
    Bind(segment, LAMBDA text :
    Bind(ast_parse(text), LAMBDA tree :
    Bind(split_lines(text, <<>>), LAMBDA lines :
        IF tree.node = "SyntaxError" THEN NoAnchors
        ELSE IF tree.body # 1 THEN NoAnchors
        ELSE IF tree.node = "BinOp" THEN BinOpAnchors(lines, tree)
        ELSE IF tree.node = "Subscript"
        THEN BracketAnchors(lines, tree.value, tree, "[")
        ELSE IF tree.node = "Call"
        THEN BracketAnchors(lines, tree.func, tree, "(")
        ELSE NoAnchors)))

----------------------------------------------------------------------------
(* StackSummary.format_frame_summary with the underline of the            *)
(* instruction: the markers, the anchors, the rows of the frame.           *)

Max(a, b) == IF a > b THEN a ELSE b

\* str.lstrip()
RECURSIVE lstrip(_)
lstrip(s) == IF s # <<>> /\ isspace(Head(s)) THEN lstrip(Tail(s)) ELSE s

\* s[a:b] and s[a:] for indices that are not negative
PySlice(s, a, b) == SubSeq(s, Min(a, Len(s)) + 1, Min(b, Len(s)))

PySliceFrom(s, a) == SubSeq(s, Min(a, Len(s)) + 1, Len(s))

\* the characters of the model at which str.splitlines() breaks a line
LineBreaks == {Newline, "\f"}

\* str.splitlines(keepends=True)
RECURSIVE splitlines_keepends(_, _)
splitlines_keepends(s, cur) ==
    IF s = <<>> THEN IF cur = <<>> THEN <<>> ELSE <<cur>>
    ELSE IF Head(s) \in LineBreaks
    THEN <<Append(cur, Head(s))>> \o splitlines_keepends(Tail(s), <<>>)
    ELSE splitlines_keepends(Tail(s), Append(cur, Head(s)))

\* str.splitlines()
splitlines(text) ==
    Bind(splitlines_keepends(text, <<>>), LAMBDA parts :
        [i \in 1..Len(parts) |->
            IF parts[i][Len(parts[i])] \in LineBreaks
            THEN SubSeq(parts[i], 1, Len(parts[i]) - 1)
            ELSE parts[i]])

\* textwrap.indent(text, '    '): the lines that hold more than white
\* space get the prefix
indent(text) ==
    Bind(splitlines_keepends(text, <<>>), LAMBDA parts :
        Flatten([i \in 1..Len(parts) |->
                    IF rstrip(parts[i]) = <<>> THEN parts[i]
                    ELSE <<" ", " ", " ", " ">> \o parts[i]]))

\* the lines of a printed text
printed_lines(text) ==
    Bind(split_lines(text, <<>>), LAMBDA parts :
        IF parts[Len(parts)] = <<>> THEN SubSeq(parts, 1, Len(parts) - 1)
        ELSE parts)

\* frame_summary._original_line.splitlines()
all_lines_original(frame_summary) ==
    splitlines(Val(line(frame_summary).self._line))

\* frame_summary.line.splitlines()
all_lines(frame_summary) == splitlines(Val(line(frame_summary).value))

dedent_characters(frame_summary) ==
    Len(all_lines_original(frame_summary)[1]) - Len(all_lines(frame_summary)[1])

\* the start of the instruction on the first line shown, in characters
start_offset(frame_summary) ==
    Max(0, byte_offset_to_character_offset(
               all_lines_original(frame_summary)[1], Val(frame_summary.colno))
           - dedent_characters(frame_summary))

\* the end of the instruction on the last line, in characters
end_offset(frame_summary) ==
    Bind(all_lines_original(frame_summary), LAMBDA original :
        Max(0, byte_offset_to_character_offset(
                   original[Len(original)], Val(frame_summary.end_colno))
               - dedent_characters(frame_summary)))

\* all_lines, start_offset and end_offset of one frame
Offsets(frame_summary) ==
    [all_lines |-> all_lines(frame_summary),
     start_offset |-> start_offset(frame_summary),
     end_offset |-> end_offset(frame_summary)]

\* the text of the instruction
segment_of(frame_summary) ==
    Bind(Offsets(frame_summary), LAMBDA at :
    LET shown == at.all_lines
        n == Len(shown)
    IN  IF frame_summary.lineno = frame_summary.end_lineno
        THEN PySlice(shown[1], at.start_offset, at.end_offset)
        ELSE PySliceFrom(shown[1], at.start_offset) \o <<Newline>>
                \o Flatten([k \in 1..(n - 2) |-> shown[k + 1] \o <<Newline>>])
                \o PySlice(shown[n], 0, at.end_offset))

\* the markers before the anchors are known: blanks, then '~' under the
\* instruction
initial_markers(frame_summary) ==
    Bind(Offsets(frame_summary), LAMBDA at :
    LET shown == at.all_lines
        n == Len(shown)
        start == at.start_offset
        end == at.end_offset
        num_spaces(s) == Len(s) - Len(lstrip(s))
    IN  IF frame_summary.lineno = frame_summary.end_lineno
        THEN << Repeat(" ", start) \o Repeat("~", end - start) >>
        ELSE << Repeat(" ", start) \o Repeat("~", Len(shown[1]) - start) >>
                \o [k \in 1..(n - 2) |->
                       Repeat(" ", num_spaces(shown[k + 1]))
                          \o Repeat("~", Len(shown[k + 1]) - num_spaces(shown[k + 1]))]
                \o << Repeat(" ", num_spaces(shown[n]))
                         \o Repeat("~", end - num_spaces(shown[n])) >>)

\* 'try: anchors = _extract_caret_anchors_from_line_segment(segment)
\*  except AssertionError: pass'
anchors_of(frame_summary) ==
    Bind(extract_caret_anchors_from_line_segment(segment_of(frame_summary)),
         LAMBDA found :
            IF found.raised = "AssertionError" THEN NoAnchors ELSE found)

\* the first line is shown from its start, the anchors count from the
\* start of the segment
ShiftNever(lineno, offset, start) == offset

ShiftOnFirstLine(lineno, offset, start) ==
    IF lineno = 0 THEN offset + start ELSE offset

\* use_secondary for the marker at (line, col), both counted from 0
use_secondary(anchors, start, lineno, col) ==
    LET anchors_left_end_offset ==
            ShiftOnFirstLine(anchors.left_end_lineno, anchors.left_end_offset, start)
        anchors_right_start_offset ==
            ShiftOnFirstLine(anchors.right_start_lineno,
                             anchors.right_start_offset, start)
    IN  IF lineno < anchors.left_end_lineno THEN FALSE
        ELSE IF lineno = anchors.left_end_lineno /\ col < anchors_left_end_offset
        THEN FALSE
        ELSE IF /\ lineno = anchors.right_start_lineno
                /\ col >= anchors_right_start_offset
        THEN FALSE
        ELSE IF lineno > anchors.right_start_lineno THEN FALSE
        ELSE TRUE

\* the markers that are printed, None when the frame gets no underline
final_markers(frame_summary, anchors) ==
    Bind(Offsets(frame_summary), LAMBDA at :
    Bind(initial_markers(frame_summary), LAMBDA markers :
    LET shown == at.all_lines
        start == at.start_offset
        end == at.end_offset
    IN  IF anchors = None
        THEN IF /\ Len(lstrip(PySlice(shown[1], 0, start))) = 0
                /\ Len(rstrip(PySliceFrom(shown[Len(shown)], end))) = 0
             THEN None
             ELSE Some([i \in 1..Len(markers) |->
                          [c \in 1..Len(markers[i]) |->
                              IF markers[i][c] = "~" THEN "^" ELSE markers[i][c]]])
        ELSE Some([i \in 1..Len(markers) |->
                     [c \in 1..Len(markers[i]) |->
                         IF markers[i][c] = "~"
                         THEN IF use_secondary(Val(anchors), start, i - 1, c - 1)
                              THEN Val(anchors).secondary_char
                              ELSE Val(anchors).primary_char
                         ELSE markers[i][c]]])))

\* 'for i in range(len(all_lines))': the lines with their markers, as text
RECURSIVE ResultText(_, _, _)
ResultText(shown, markers, i) ==
    IF i > Len(shown) THEN [raised |-> NoError, text |-> <<>>]
    ELSE IF markers # None /\ i > Len(Val(markers))
    THEN [raised |-> "IndexError", text |-> <<>>]
    ELSE Bind(ResultText(shown, markers, i + 1), LAMBDA rest :
             [raised |-> rest.raised,
              text |-> shown[i] \o <<Newline>>
                          \o (IF markers = None THEN <<>>
                              ELSE Val(markers)[i] \o <<Newline>>)
                          \o rest.text])

\* the rows of one frame: the header, then the source lines and, under
\* each, its markers when the frame is underlined
format_frame_summary_rows(frame_summary) ==
    LET header == [t |-> "header", file |-> frame_summary.filename,
                   lineno |-> frame_summary.lineno, text |-> <<>>]
        value == line(frame_summary).value
        known == /\ frame_summary.end_lineno # None
                 /\ frame_summary.colno # None
                 /\ frame_summary.end_colno # None
    IN  IF value = None \/ value = Some(<<>>)
        THEN [raised |-> NoError, rows |-> <<header>>]
        ELSE IF ~known
        THEN [raised |-> NoError,
              rows |-> <<header>>
                  \o LET plain == printed_lines(indent(Val(value)) \o <<Newline>>)
                     IN  [i \in 1..Len(plain) |->
                             [t |-> "source", file |-> frame_summary.filename,
                              lineno |-> frame_summary.lineno, text |-> plain[i]]]]
        ELSE
        Bind(anchors_of(frame_summary), LAMBDA found :
        IF found.raised # NoError
        THEN [raised |-> found.raised, rows |-> <<>>]
        ELSE
        Bind(final_markers(frame_summary, found.anchors), LAMBDA markers :
        Bind(ResultText(all_lines(frame_summary), markers, 1), LAMBDA body :
        IF body.raised # NoError
        THEN [raised |-> body.raised, rows |-> <<>>]
        ELSE
        Bind(printed_lines(indent(dedent(body.text))), LAMBDA printed :
             [raised |-> NoError,
              rows |-> <<header>>
                  \o [i \in 1..Len(printed) |->
                         [t |-> IF markers # None /\ i % 2 = 0 THEN "marker"
                                ELSE "source",
                          file |-> frame_summary.filename,
                          lineno |-> frame_summary.lineno,
                          text |-> printed[i]]]]))))

----------------------------------------------------------------------------
(* Specification of format_frame_summary on one underlined frame.  The     *)
(* frame shows an instruction taken from Cores, placed after an indent and *)
(* a prefix; its columns are the byte offsets of the instruction, or are   *)
(* missing.                                                                *)

Indents == { <<>>, <<" ", " ">> }

\* what stands before and after the instruction on its lines
Wraps ==
    { [prefix |-> <<>>, suffix |-> <<>>],
      [prefix |-> <<"x", " ", "=", " ">>, suffix |-> <<>>],
      [prefix |-> <<"U+00E9", " ", "=", " ">>, suffix |-> <<>>],
      [prefix |-> <<>>, suffix |-> <<" ", "#">>],
      [prefix |-> <<"f", "(">>, suffix |-> <<")">>],
      [prefix |-> <<"x", " ", "=", " ">>, suffix |-> <<" ", "\f", "#">>] }

\* the instructions, line by line
Cores ==
    { << <<"a", " ", "+", " ", "b">> >>,
      << <<"a", " ", "*", "*", " ", "b">> >>,
      << <<"(", "a", ")", " ", "+", " ", "b">> >>,
      << <<"U+00E9", " ", "+", " ", "b">> >>,
      << <<"a", "[", "b", "]">> >>,
      << <<"f", "(", "x", ")">> >>,
      << <<"a">> >>,
      << <<"a", " ", "=", " ", "b">> >>,
      << <<")", "(", "a">> >>,
      << <<"f", "(", "a", ",">>, <<" ", " ", "b", ")">> >>,
      << <<"(", "a", " ", "+">>, <<" ", "b", ")">> >>,
      << <<"x", "[">>, <<" ", "0", "]">> >>,
      << <<"a", " ", "#">>, <<"+", " ", "b">> >>,
      << <<"f", "(">>, <<" ", "a", ",">>, <<" ", "b", ")">> >>,
      << <<"[", "a", ",">>, <<" ", "b", "]">> >> }

\* which of end_lineno, colno, end_colno the frame has
Masks == {"full", "no_end_lineno", "no_colno", "no_end_colno"}

\* the FrameSummary of an instruction, its source line resolved
FrameOf(ind, wrap, core, mask) ==
    LET n == Len(core)
        lines == [k \in 1..n |->
                     ind \o (IF k = 1 THEN wrap.prefix ELSE <<>>) \o core[k]]
    IN  [filename |-> "f.py",
         lineno |-> Some(1),
         end_lineno |-> IF mask = "no_end_lineno" THEN None ELSE Some(n),
         colno |-> IF mask = "no_colno" THEN None
                   ELSE Some(Len(encode_utf8(ind \o wrap.prefix))),
         end_colno |-> IF mask = "no_end_colno" THEN None
                       ELSE Some(Len(encode_utf8(lines[n]))),
         _line |-> Some(Flatten([k \in 1..n |->
                       lines[k] \o (IF k = n THEN wrap.suffix ELSE <<>>)
                           \o <<Newline>>])),
         _line_dedented |-> None]

InitMarkers ==
    /\ pc = "start"
    /\ op = "none"
    /\ extracted_list = <<>>
    /\ tb = <<>>
    /\ limit = None
    /\ tracebacklimit = None
    /\ result = <<>>
    /\ raised = NoError
    /\ local = None
    /\ heap = None
    /\ ExcIdle
    /\ \E ind \in Indents, wrap \in Wraps, core \in Cores, mask \in Masks :
          call = [frame_summary |-> FrameOf(ind, wrap, core, mask)]

\* the frame goes through the branch that underlines: it has a source
\* line, an end line and both columns
Underlined(frame_summary) ==
    /\ line(frame_summary).value \notin {None, Some(<<>>)}
    /\ frame_summary.end_lineno # None
    /\ frame_summary.colno # None
    /\ frame_summary.end_colno # None

\* segment, anchors and markers when format_frame_summary returns or raises
frame_locals(frame_summary) ==
    IF Underlined(frame_summary)
    THEN Bind(anchors_of(frame_summary), LAMBDA found :
             Some([segment |-> segment_of(frame_summary),
                   found |-> found,
                   markers |-> IF found.raised = NoError
                               THEN final_markers(frame_summary, found.anchors)
                               ELSE Some(initial_markers(frame_summary))]))
    ELSE None

FormatFrameSummary ==
    /\ pc = "start"
    /\ \E made \in {format_frame_summary_rows(call.frame_summary)} :
           /\ raised' = made.raised
           /\ result' = made.rows
           /\ pc' = IF made.raised = NoError THEN "done" ELSE "failed"
    /\ local' = frame_locals(call.frame_summary)
    /\ op' = "format_frame_summary"
    /\ UNCHANGED <<stackVars, excVars, call, heap>>

NextMarkers == FormatFrameSummary

SpecMarkers == InitMarkers /\ [][NextMarkers]_vars

----------------------------------------------------------------------------
(* Claims about the underline of a frame                                   *)

FrameDone == op = "format_frame_summary"

\* the physical source lines of the frame: the lines of the file it shows
PhysicalLines(frame_summary) == printed_lines(Val(frame_summary._line))

Blank(s) == \A k \in 1..Len(s) : isspace(s[k])

\* only white space stands before the start column on the first source
\* line and after the end column on the last one
OnlyBlanksAround(frame_summary) ==
    LET physical == PhysicalLines(frame_summary)
        first == physical[1]
        last == physical[Len(physical)]
    IN  /\ Blank(PySlice(first, 0,
                 byte_offset_to_character_offset(first, Val(frame_summary.colno))))
        /\ Blank(PySliceFrom(last,
                 byte_offset_to_character_offset(last, Val(frame_summary.end_colno))))

MarkerRows == { i \in 1..Len(result) : result[i].t = "marker" }

SourceRows == { i \in 1..Len(result) : result[i].t = "source" }

WithoutAnchors ==
    local # None /\ Val(local).found.raised = NoError
                 /\ Val(local).found.anchors = None

\* C22: a frame without its end line or one of its columns gets no marker
\* line.  A frame that has them and no anchors gets no marker line when only
\* white space stands before the start column on its first source line and
\* after the end column on its last one; otherwise it gets exactly one marker
\* line under each physical source line, and every marker is '^'.
C22_WholeOrCaretUnderline ==
    FrameDone =>
        LET frame_summary == call.frame_summary
        IN  /\ local = None => pc = "done" /\ MarkerRows = {}
            /\ WithoutAnchors =>
                  /\ pc = "done"
                  /\ IF OnlyBlanksAround(frame_summary) THEN MarkerRows = {}
                     ELSE /\ Len(result) = 1 + 2 * Len(PhysicalLines(frame_summary))
                          /\ \A i \in 2..Len(result) :
                                result[i].t = IF i % 2 = 0 THEN "source" ELSE "marker"
                          /\ \A i \in MarkerRows :
                                \A k \in 1..Len(result[i].text) :
                                    result[i].text[k] \in {" ", "^"}

\* a position of the markers, line and column counted from 0
MarkerPositions ==
    LET markers == Val(Val(local).markers)
    IN  UNION { { <<i - 1, c - 1>> : c \in 1..Len(markers[i]) } :
                    i \in 1..Len(markers) }

MarkerAt(p) == Val(Val(local).markers)[p[1] + 1][p[2] + 1]

\* the columns that carry '~' before the anchors are applied
Marked(p) ==
    LET before == initial_markers(call.frame_summary)
    IN  p[1] < Len(before) /\ p[2] < Len(before[p[1] + 1])
            /\ before[p[1] + 1][p[2] + 1] = "~"

\* (line, column) a comes before b in line-major order
LineMajorBefore(a, b) == a[1] < b[1] \/ (a[1] = b[1] /\ a[2] < b[2])

\* an anchor as (line, column of the line shown)
LeftAnchor ==
    LET anchors == Val(Val(local).found.anchors)
    IN  <<anchors.left_end_lineno,
          anchors.left_end_offset
              + (IF anchors.left_end_lineno = 0
                 THEN start_offset(call.frame_summary) ELSE 0)>>

RightAnchor ==
    LET anchors == Val(Val(local).found.anchors)
    IN  <<anchors.right_start_lineno,
          anchors.right_start_offset
              + (IF anchors.right_start_lineno = 0
                 THEN start_offset(call.frame_summary) ELSE 0)>>

WithAnchors ==
    FrameDone /\ local # None /\ Val(local).found.raised = NoError
              /\ Val(local).found.anchors # None

\* C23: when anchors are found, the markers stand in the columns that
\* carried '~' before and nowhere else; a marker is '^' from the left anchor
\* (included) to the right anchor (excluded) in line-major order and '~'
\* outside, the column of an anchor on the first line being counted from the
\* start offset of the segment and that of an anchor on a later line from the
\* start of the line.
C23_PrimaryBetweenAnchors ==
    WithAnchors =>
        /\ Val(local).markers # None
        /\ Len(Val(Val(local).markers)) = Len(initial_markers(call.frame_summary))
        /\ \A i \in 1..Len(Val(Val(local).markers)) :
              Len(Val(Val(local).markers)[i])
                  = Len(initial_markers(call.frame_summary)[i])
        /\ \A p \in MarkerPositions :
              MarkerAt(p) =
                  IF ~Marked(p) THEN " "
                  ELSE IF ~LineMajorBefore(p, LeftAnchor)
                          /\ LineMajorBefore(p, RightAnchor)
                  THEN "^"
                  ELSE "~"

\* a frame over two lines with the left anchor on the first line, after the
\* start of the line shown, and the right anchor on the second: both
\* markers are printed
C23_Witness ==
    /\ WithAnchors
    /\ pc = "done"
    /\ LeftAnchor[1] = 0
    /\ RightAnchor[1] = 1
    /\ start_offset(call.frame_summary) > 0
    /\ \E p, q \in MarkerPositions : MarkerAt(p) = "^" /\ MarkerAt(q) = "~"
    /\ \E i \in MarkerRows : \E k \in 1..Len(result[i].text) : result[i].text[k] = "^"

\* C24: whatever the segment, format_frame_summary returns the rendered
\* frame: when the segment is not a single expression, or the scan for the
\* operator or the bracket leaves the segment, there are no anchors, and no
\* line or column outside the segment is read.
C24_AnySegmentTolerated ==
    FrameDone => /\ raised = NoError
                 /\ pc = "done"
                 /\ local # None => Val(local).found.raised = NoError

----------------------------------------------------------------------------
(* Specification of the two constructions of one failure: it is built with *)
(* compact=True and rendered, as format_exception does, then built again   *)
(* with compact=False, the default of from_exception, and rendered.        *)

InitCompact == InitChain /\ compact = TRUE

\* the rendering of the compact tree is kept and the constructor is called
\* again on the same failure, without compact
ConstructAgain ==
    /\ pc = "done"
    /\ op = "format"
    /\ compact
    /\ local = None
    /\ local' = Some([chain |-> chain, units |-> Units(1, <<>>)])
    /\ compact' = FALSE
    /\ pc' = "start"
    /\ op' = "none"
    /\ nodes' = <<>>
    /\ queue' = <<>>
    /\ seen' = {}
    /\ result' = <<>>
    /\ ctx' = None
    /\ UNCHANGED <<stackVars, raised, excs, max_group_width, max_group_depth,
                   chain, show_group, call, heap>>

NextCompact == Construct \/ QueueStep \/ Format \/ ConstructAgain

SpecCompact == InitCompact /\ [][NextCompact]_vars

\* C25: for every graph of failures linked by cause and context, the blocks
\* and separators that format(chain=True) emits on the tree built without
\* compact are those it emits on the tree built with compact.
C25_SameRendering ==
    (Formatted /\ chain /\ ~compact /\ local # None /\ Val(local).chain)
        => Units(1, <<>>) = Val(local).units

----------------------------------------------------------------------------
(* Specification of FrameSummary.line read by several threads at once.     *)
(* heap.frame_summary is the object the readers share, local[t] the        *)
(* position and the local values of reader t.  A step is one read or one   *)
(* write of an attribute of the object: the interpreter may switch to      *)
(* another thread between any two of them.                                 *)

NumReaders == 2      \* threads that read the line of the same frame

Readers == 1..NumReaders

InitReaders ==
    /\ pc = "start"
    /\ op = "none"
    /\ extracted_list = <<>>
    /\ tb = <<>>
    /\ limit = None
    /\ tracebacklimit = None
    /\ result = <<>>
    /\ raised = NoError
    /\ call = None
    /\ ExcIdle
    /\ \E f \in FrameChoices :
          heap = [frame_summary |->
                     FrameSummaryInit(f.filename, f.lineno, f.end_lineno, FALSE).self]
    /\ local = [t \in Readers |->
                   [pc |-> "line", lineno |-> 0, read |-> None, value |-> None]]

ReaderVars == <<pc, op, stackVars, result, raised, excVars, call>>

\* 'if self._line is None:' and 'if self.lineno is None: return None'
TestLine(t) ==
    /\ local[t].pc = "line"
    /\ LET self == heap.frame_summary
       IN  local' = [local EXCEPT ![t].pc =
                        IF self._line # None THEN "test_dedented"
                        ELSE IF self.lineno = None THEN "returned"
                        ELSE "clear"]
    /\ UNCHANGED <<ReaderVars, heap>>

\* 'self._line = ""' and the start of the loop
ClearLine(t) ==
    /\ local[t].pc = "clear"
    /\ heap' = [heap EXCEPT !.frame_summary._line = Some(<<>>)]
    /\ local' = [local EXCEPT ![t].pc = "for",
                              ![t].lineno = Val(heap.frame_summary.lineno)]
    /\ UNCHANGED ReaderVars

\* the end line of 'range(self.lineno, end_lineno + 1)'
LastLine(self) ==
    IF self.end_lineno = None THEN Val(self.lineno) ELSE Val(self.end_lineno)

\* 'self._line += ...': the attribute is read before the line is fetched
LoadLine(t) ==
    /\ local[t].pc = "for"
    /\ local[t].lineno <= LastLine(heap.frame_summary)
    /\ local' = [local EXCEPT ![t].pc = "add",
                              ![t].read = heap.frame_summary._line]
    /\ UNCHANGED <<ReaderVars, heap>>

\* 'self._line += linecache.getline(self.filename, lineno).rstrip() + "\n"':
\* the sum is stored
AddLine(t) ==
    /\ local[t].pc = "add"
    /\ heap' = [heap EXCEPT !.frame_summary._line =
                   Some(Val(local[t].read)
                        \o rstrip(getline(heap.frame_summary.filename,
                                          local[t].lineno))
                        \o <<Newline>>)]
    /\ local' = [local EXCEPT ![t].pc = "for", ![t].lineno = @ + 1]
    /\ UNCHANGED ReaderVars

\* the loop is over
LoopEnd(t) ==
    /\ local[t].pc = "for"
    /\ local[t].lineno > LastLine(heap.frame_summary)
    /\ local' = [local EXCEPT ![t].pc = "test_dedented"]
    /\ UNCHANGED <<ReaderVars, heap>>

\* 'if self._line_dedented is None:'
TestDedented(t) ==
    /\ local[t].pc = "test_dedented"
    /\ local' = [local EXCEPT ![t].pc =
                    IF heap.frame_summary._line_dedented = None
                    THEN "test_resolved" ELSE "return"]
    /\ UNCHANGED <<ReaderVars, heap>>

\* 'if self._line is not None:'
TestResolved(t) ==
    /\ local[t].pc = "test_resolved"
    /\ local' = [local EXCEPT ![t].pc =
                    IF heap.frame_summary._line # None THEN "dedent"
                    ELSE "return"]
    /\ UNCHANGED <<ReaderVars, heap>>

\* 'textwrap.dedent(self._line)': the attribute is read
LoadForDedent(t) ==
    /\ local[t].pc = "dedent"
    /\ local' = [local EXCEPT ![t].pc = "store",
                              ![t].read = heap.frame_summary._line]
    /\ UNCHANGED <<ReaderVars, heap>>

\* 'self._line_dedented = textwrap.dedent(self._line).rstrip()'
StoreDedented(t) ==
    /\ local[t].pc = "store"
    /\ heap' = [heap EXCEPT !.frame_summary._line_dedented =
                   Some(rstrip(dedent(Val(local[t].read))))]
    /\ local' = [local EXCEPT ![t].pc = "return"]
    /\ UNCHANGED ReaderVars

\* 'return self._line_dedented'
ReturnDedented(t) ==
    /\ local[t].pc = "return"
    /\ local' = [local EXCEPT ![t].pc = "returned",
                              ![t].value = heap.frame_summary._line_dedented]
    /\ UNCHANGED <<ReaderVars, heap>>

NextReaders ==
    \E t \in Readers :
        \/ TestLine(t)
        \/ ClearLine(t)
        \/ LoadLine(t)
        \/ AddLine(t)
        \/ LoopEnd(t)
        \/ TestDedented(t)
        \/ TestResolved(t)
        \/ LoadForDedent(t)
        \/ StoreDedented(t)
        \/ ReturnDedented(t)

SpecReaders == InitReaders /\ [][NextReaders]_vars

----------------------------------------------------------------------------
(* Claims about concurrent readers of a line                               *)

\* the frame as the readers found it
Unresolved ==
    [heap.frame_summary EXCEPT !._line = None, !._line_dedented = None]

ReadersDone ==
    /\ heap # None
    /\ "frame_summary" \in DOMAIN heap
    /\ DOMAIN local = Readers
    /\ \A t \in Readers : local[t].pc = "returned"

\* C26: when the readers of the unresolved line of one frame have all
\* returned, each of them got the line a single reader gets, resolved over
\* all its physical lines and dedented, and the object memoizes what a
\* single reader leaves in it.
C26_ReadersAgree ==
    ReadersDone =>
        /\ \A t \in Readers : local[t].value = line(Unresolved).value
        /\ heap.frame_summary = line(Unresolved).self


----------------------------------------------------------------------------
(* Claims about the group depth counter and the closing line of a group    *)

\* _ctx.exception_group_depth as format left it
Counter == Val(ctx).exception_group_depth

\* C27: the group depth counter of a render is balanced: it is never
\* negative while format() runs, the assertion that it is 1 at the end of
\* a top-level group never fails, and it is 0 again when format() finishes.
\* The counter goes up only right before a string is emitted, and every
\* emitted string records it (indent), so its lowest values are the ones
\* recorded in the strings after a run of decrements and the one left at
\* the end.
\* A format() that raises TypeError for a cap of None does not finish; the
\* counter is then only required not to be negative.
C27_CounterBalanced ==
    Formatted =>
        /\ \A i \in 1..Len(result) : result[i].indent >= 0
        /\ Counter >= 0
        /\ raised # "AssertionError"
        /\ raised = NoError => Counter = 0

\* a group nested in a group through the cause of a member was rendered:
\* the counter went up to 3 and came back to 0
C27_Witness ==
    /\ Formatted
    /\ raised = NoError
    /\ chain
    /\ Counter = 0
    /\ \E i \in 1..Len(result) :
         /\ result[i].body.t = "sep"
         /\ result[i].indent = 2
         /\ \E j \in 1..(i - 1) :
              /\ result[j].body.t = "exc"
              /\ result[j].indent = 3
    /\ \E i \in 1..Len(result) : result[i].body.t = "close"

\* the objects that format reaches from object n
RECURSIVE Subtree(_)
Subtree(n) ==
    {n}
    \cup (IF nodes[n].cause # None THEN Subtree(Val(nodes[n].cause)) ELSE {})
    \cup (IF nodes[n].context # None THEN Subtree(Val(nodes[n].context)) ELSE {})
    \cup (IF nodes[n].exceptions # None
          THEN UNION { Subtree(Members(n)[k]) : k \in 1..Len(Members(n)) }
          ELSE {})

\* the positions in result of the text emitted for group g: its own block
\* and everything emitted for its sub-failures
GroupText(g) ==
    BlockIdx(g) \cup
    { i \in 1..Len(result) :
        \E k \in 1..Len(Members(g)) : result[i].body.node \in Subtree(Members(g)[k]) }

LastOf(I) == CHOOSE i \in I : \A j \in I : j <= i

\* group g and the groups nested as last sub-failure, one in the other
RECURSIVE Closers(_)
Closers(g) ==
    LET last == Members(g)[Len(Members(g))]
    IN  {g} \cup (IF IsGroup(last) /\ Full(last) THEN Closers(last) ELSE {})

\* C28: every group rendered in full is closed: the text emitted for it
\* ends with a closing border line, emitted after the output of its last
\* sub-failure by the group or by a group nested as its last sub-failure,
\* also when the last sub-failure is not a group and its cause or context
\* is a group.
C28_GroupsClosed ==
    (Formatted /\ raised = NoError)
        => \A g \in 1..Len(nodes) :
             (IsGroup(g) /\ Full(g)) =>
                LET last == result[LastOf(GroupText(g))]
                IN  /\ last.body.t = "close"
                    /\ last.body.node \in Closers(g)

====
